---- MODULE Spec2Model ----
(***************************************************************************)
(* Document-to-vector pipeline of ai-agents-project-planner:               *)
(* Chunker, Embedder, PgVectorLoader, AuditLoader, the extractors and the  *)
(* ETLPipeline driver, and on the reading side RetrievalUtility, RAGTool   *)
(* and the document workflow graph, modelled as state machines.            *)
(*                                                                         *)
(* Text is a sequence of characters.  A document's text is kept as the     *)
(* sequence of segments the text splitter cuts it into; a segment may be   *)
(* blank (the splitter appends an over-long piece without trimming it).    *)
(* A uuid4() value is a fresh natural number taken from nextUuid.          *)
(***************************************************************************)
EXTENDS Integers, Sequences, FiniteSets, TLC

(* ---------------------------- bounds ----------------------------------- *)
MaxPieces == 3
MaxUuid == 8

(* ---------------------------- helpers ---------------------------------- *)
None == "None"

(* an embedding field that is None; Chunk turns [] into None as well *)
NoEmbedding == <<>>

(* a field that holds no engine or connection *)
NoHandle == 0

NoDocument == [id |-> 0, source |-> "", content |-> <<>>]

Min(a, b) == IF a <= b THEN a ELSE b

Range(s) == {s[i] : i \in 1..Len(s)}

SeqsUpTo(S, n) == UNION {[1..k -> S] : k \in 0..n}

(* str.strip(): remove leading and trailing whitespace *)
RECURSIVE LStrip(_)
LStrip(s) == IF s # <<>> /\ Head(s) = " " THEN LStrip(Tail(s)) ELSE s

RECURSIVE RStrip(_)
RStrip(s) ==
    IF s # <<>> /\ s[Len(s)] = " " THEN RStrip(SubSeq(s, 1, Len(s) - 1)) ELSE s

Strip(s) == RStrip(LStrip(s))

(* "".join(pieces) *)
RECURSIVE Concat(_)
Concat(ss) == IF ss = <<>> THEN <<>> ELSE Head(ss) \o Concat(Tail(ss))

VARIABLES
    nextUuid,       \* source of uuid4() values
    ck_document,    \* Chunker: the Document given to chunk()
    ck_chunks,      \* Chunker: the list chunk() returned
    vl_config,      \* PgVectorLoader: batch_size, upsert_mode, embedding_dimension
    vl_engine,      \* PgVectorLoader.engine (None or a handle)
    vl_connection,  \* PgVectorLoader._connection (None or a handle)
    vl_open,        \* handles (engines, connections) that are open
    vl_store,       \* committed rows of the chunks table, by id
    vl_last,        \* what the last write call was given and did
    vl_search,      \* the last get_best_matches call and what it returned
    em_config,      \* Embedder: max_retries, batch_size, parallel_processing, ...
    em_cache,       \* Embedder._cache: content hash -> vector
    em_call,        \* the embed / embed_batch call of the caller and its result
    em_embed,       \* the running invocation of embed() under its retry decorator
    em_batch,       \* the loop state of _embed_batch_openai_*
    au_connection,  \* AuditLoader._connection (None or a handle)
    au_events,      \* the audit log, oldest event first
    pl_config,      \* ETLPipeline: pipeline.continue_on_error, pipeline.incremental
    pl_files,       \* the files under the extractor's base path
    pl_run,         \* number of run() calls started
    pl_pc,          \* where run() is: idle, loop, returned, raised
    pl_documents,   \* documents = list(self._extract())
    pl_next,        \* position in documents of the next raw_doc
    pl_outcomes,    \* what became of each document of this run
    pl_stats,       \* stats of this run
    pl_snapshots,   \* the chunk table as each run that returned left it
    al,             \* AuditLoader of each db_type: engine, _connection, log
    al_clock,       \* datetime.utcnow(), as a position in AuditTimes
    al_connects,    \* number of connect() calls made
    al_last,        \* the last AuditLoader call and what it did on each db_type
    ru_last,        \* RetrievalUtility: the last call and the list it returned
    rt_last,        \* RAGTool: the last retrieve_context call and its records
    ex,             \* the extractor: its variant, its source and the run of extract()
    wf              \* the document workflow: the node to run and the DocumentState

chunkerVars == <<nextUuid, ck_document, ck_chunks>>

loaderVars ==
    <<vl_config, vl_engine, vl_connection, vl_open, vl_store, vl_last, vl_search>>

embedderVars == <<em_config, em_cache, em_call, em_embed, em_batch>>

pipelineVars ==
    <<au_connection, au_events, pl_config, pl_files, pl_run, pl_pc, pl_documents,
      pl_next, pl_outcomes, pl_stats, pl_snapshots>>

auditVars == <<al, al_clock, al_connects, al_last>>

agentVars == <<ru_last, rt_last, ex, wf>>

vars == <<chunkerVars, loaderVars, embedderVars, pipelineVars, auditVars, agentVars>>

(* ======================= Chunker (chunker.py) ========================== *)

(* segments the splitter can return for a document *)
Segments == { <<"a">>, <<"b">>, <<" ">>, <<" ", "a">>, <<"b", " ">> }

DocumentTexts == SeqsUpTo(Segments, MaxPieces)

(* RecursiveCharacterTextSplitter.split_text: the pieces of the text *)
SplitText(text) == text

(* the index enumerate() gives the k-th kept piece: its position among all
   pieces, counted from 0 *)
PieceIndex(pieces, k) == k - 1

(* positions of the pieces that survive `if not chunk_text.strip(): continue` *)
KeptPositions(pieces) == {k \in 1..Len(pieces) : Strip(pieces[k]) # <<>>}

RECURSIVE SortedSeq(_)
SortedSeq(S) ==
    IF S = {} THEN <<>>
    ELSE LET m == CHOOSE x \in S : \A y \in S : x <= y
         IN <<m>> \o SortedSeq(S \ {m})

(* Chunk(...) as built in Chunker.chunk; validate_content strips the content,
   validate_embedding_dimension turns embedding=[] into None *)
NewChunk(id, docId, idx, text, source) ==
    [ id |-> id,
      document_id |-> docId,
      chunk_index |-> idx,
      content |-> Strip(text),
      embedding |-> NoEmbedding,
      metadata |-> [source |-> source, chunk_size |-> Len(text), enriched_at |-> 0] ]

(* Chunker.chunk(document); uuidBase is the next unused uuid *)
ChunkDocument(doc, uuidBase) ==
    IF Strip(Concat(doc.content)) = <<>> THEN <<>>
    ELSE LET pieces == SplitText(doc.content)
             kept == SortedSeq(KeptPositions(pieces))
         IN [ j \in 1..Len(kept) |->
                NewChunk(uuidBase + j - 1, doc.id, PieceIndex(pieces, kept[j]),
                         pieces[kept[j]], doc.source) ]

ChunkerCall ==
    /\ nextUuid + MaxPieces + 1 <= MaxUuid
    /\ \E text \in DocumentTexts :
         LET doc == [id |-> nextUuid, source |-> "s1", content |-> text]
         IN /\ ck_document' = doc
            /\ ck_chunks' = ChunkDocument(doc, nextUuid + 1)
            /\ nextUuid' = nextUuid + 1 + Len(ck_chunks')
    /\ UNCHANGED <<loaderVars, embedderVars, pipelineVars, auditVars, agentVars>>

ChunkerInit ==
    /\ nextUuid = 1
    /\ ck_document = NoDocument
    /\ ck_chunks = <<>>

ChunkerNext == ChunkerCall

(* ================== PgVectorLoader (vector_loader.py) ================== *)

(* bounds of the loader model *)
MaxChunks == 2
MaxConnects == 2

(* configured embedding_dimension of the store *)
EmbeddingDimension == 2

BatchSizes == {1, 2}

(* the embedding of a text with n components *)
Vec(text, n) == [i \in 1..n |-> text]

MetadataOf(text) == [source |-> "s1", chunk_size |-> Len(text), enriched_at |-> 0]

(* chunks a caller can hand to the loader: two ids, two versions of the
   content, and an embedding of the right length, of another length, or none *)
LoaderChunk(id, text, emb) ==
    [ id |-> id, document_id |-> 1, chunk_index |-> id - 1, content |-> text,
      embedding |-> emb, metadata |-> MetadataOf(text) ]

LoaderChunks ==
    { LoaderChunk(1, <<"a">>, Vec(<<"a">>, EmbeddingDimension)),
      LoaderChunk(1, <<"b", "b">>, Vec(<<"b", "b">>, EmbeddingDimension)),
      LoaderChunk(2, <<"a">>, Vec(<<"a">>, EmbeddingDimension)),
      LoaderChunk(2, <<"a">>, Vec(<<"a">>, EmbeddingDimension - 1)),
      LoaderChunk(2, <<"a">>, NoEmbedding) }

(* `not chunk.embedding`, then the length check, of load_chunks *)
ChunkValidationSkipsDimension(c, dim) == c.embedding # NoEmbedding

ChunkValid(c, dim) ==
    /\ c.embedding # NoEmbedding
    /\ Len(c.embedding) = dim

(* the table: embedding vector(dim) NOT NULL *)
ColumnsAccept(c, dim) == c.embedding # NoEmbedding /\ Len(c.embedding) = dim

RowOf(c) ==
    [ document_id |-> c.document_id, chunk_index |-> c.chunk_index,
      content |-> c.content, embedding |-> c.embedding, metadata |-> c.metadata ]

(* the rows of the open transaction after the first n rows of the batch
   have been written *)
RECURSIVE ApplyRows(_, _, _)
ApplyRows(rows, batch, n) ==
    IF n = 0 THEN rows
    ELSE LET prev == ApplyRows(rows, batch, n - 1)
             c == batch[n]
         IN [id \in DOMAIN prev \cup {c.id} |-> IF id = c.id THEN RowOf(c) ELSE prev[id]]

(* does row k of the batch make the statement fail?  upsert: ON CONFLICT
   cannot touch a row twice in one statement; insert: id is the primary key *)
RowFails(rows, batch, k, dim, upsert) ==
    \/ ~ColumnsAccept(batch[k], dim)
    \/ \E m \in 1..(k - 1) : batch[m].id = batch[k].id
    \/ ~upsert /\ batch[k].id \in DOMAIN rows

(* first row at which the write of a batch fails; Len+1 is a failing
   commit; 0 is no failure.  inj is the row at which the database itself
   fails (0: it does not) *)
FirstFailure(rows, batch, dim, upsert, inj) ==
    LET bad == {k \in 1..Len(batch) : RowFails(rows, batch, k, dim, upsert)}
                  \cup (IF inj = 0 THEN {} ELSE {inj})
    IN IF bad = {} THEN 0 ELSE CHOOSE k \in bad : \A m \in bad : k <= m

(* self._connection.rollback() leaves the committed rows *)
RollbackSkipped(committed, working) == working

Rollback(committed, working) == committed

(* _upsert_batch / one batch of _insert_chunks: execute_values, commit,
   and rollback when either raises *)
WriteBatch(rows, batch, dim, upsert, inj) ==
    LET f == FirstFailure(rows, batch, dim, upsert, inj)
    IN IF f = 0
       THEN [ok |-> TRUE, rows |-> ApplyRows(rows, batch, Len(batch))]
       ELSE [ok |-> FALSE, rows |-> Rollback(rows, ApplyRows(rows, batch, f - 1))]

(* the i-th slice chunks[i:i + batch_size] of the loop, i counted from 1 *)
BatchOf(chunks, i, bs) == SubSeq(chunks, (i - 1) * bs + 1, Min(i * bs, Len(chunks)))

(* where the database fails in batch i, whose first chunk is the lo-th of
   the call: inj > 0 fails the write of the inj-th chunk of the call,
   inj < 0 the commit of the batch that holds the (-inj)-th chunk *)
InjectedAt(inj, lo, hi) ==
    IF inj > 0 /\ lo <= inj /\ inj <= hi THEN inj - lo + 1
    ELSE IF inj < 0 /\ lo <= -inj /\ -inj <= hi THEN hi - lo + 2
    ELSE 0

(* the batch loop of upsert_chunks and _insert_chunks *)
RECURSIVE WriteBatches(_, _, _, _, _, _)
WriteBatches(rows, chunks, i, cfg, upsert, inj) ==
    IF (i - 1) * cfg.batch_size >= Len(chunks)
    THEN [rows |-> rows, raised |-> None, failed_batch |-> <<>>, pre_batch |-> rows]
    ELSE LET batch == BatchOf(chunks, i, cfg.batch_size)
             lo == (i - 1) * cfg.batch_size + 1
             r == WriteBatch(rows, batch, cfg.embedding_dimension, upsert,
                             InjectedAt(inj, lo, lo + Len(batch) - 1))
         IN IF r.ok
            THEN WriteBatches(r.rows, chunks, i + 1, cfg, upsert, inj)
            ELSE [rows |-> r.rows, raised |-> "LoadingError",
                  failed_batch |-> batch, pre_batch |-> rows]

Unwritten(rows, raised) ==
    [rows |-> rows, raised |-> raised, failed_batch |-> <<>>, pre_batch |-> rows]

(* PgVectorLoader.upsert_chunks *)
UpsertChunks(rows, chunks, cfg, conn, inj) ==
    IF chunks = <<>> THEN Unwritten(rows, None)
    ELSE IF conn = NoHandle THEN Unwritten(rows, "ConnectionError")
    ELSE WriteBatches(rows, chunks, 1, cfg, TRUE, inj)

(* PgVectorLoader._insert_chunks *)
InsertChunks(rows, chunks, cfg, conn, inj) ==
    IF conn = NoHandle THEN Unwritten(rows, "ConnectionError")
    ELSE WriteBatches(rows, chunks, 1, cfg, FALSE, inj)

(* PgVectorLoader.load_chunks *)
LoadChunks(rows, chunks, cfg, conn, inj) ==
    IF chunks = <<>> THEN Unwritten(rows, None)
    ELSE IF \E k \in 1..Len(chunks) : ~ChunkValid(chunks[k], cfg.embedding_dimension)
    THEN Unwritten(rows, "ValidationError")
    ELSE IF cfg.upsert_mode THEN UpsertChunks(rows, chunks, cfg, conn, inj)
    ELSE InsertChunks(rows, chunks, cfg, conn, inj)

Injections == (0 - MaxChunks)..MaxChunks

(* the database can fail at a chunk the call holds *)
InjectionsFor(chunks) == {inj \in Injections : inj <= Len(chunks) /\ 0 - inj <= Len(chunks)}

(* what is kept of a call: whether its argument held an embedding of the
   configured length, of no or another length, of another length; whether
   the call changed the committed rows; of a batch that failed, the ids of
   its chunks in order, whether its first chunk was a new version, with a
   fitting embedding, of a stored row, and whether a row of the batch is no
   longer what it was before the batch *)
HasEmbeddingOfDimension(c, dim) == c.embedding # NoEmbedding /\ Len(c.embedding) = dim

RewritesStoredRow(c, rows, dim) ==
    /\ HasEmbeddingOfDimension(c, dim)
    /\ c.id \in DOMAIN rows
    /\ rows[c.id].content # c.content

RowUntouched(id, before, after) ==
    /\ id \in DOMAIN after <=> id \in DOMAIN before
    /\ id \in DOMAIN after => after[id] = before[id]

LastCall(op, chunks, before, res) ==
    [ op |-> op,
      has_unfit |-> \E k \in 1..Len(chunks) :
          ~HasEmbeddingOfDimension(chunks[k], vl_config.embedding_dimension),
      has_fit |-> \E k \in 1..Len(chunks) :
          HasEmbeddingOfDimension(chunks[k], vl_config.embedding_dimension),
      has_other_length |-> \E k \in 1..Len(chunks) :
          /\ chunks[k].embedding # NoEmbedding
          /\ Len(chunks[k].embedding) # vl_config.embedding_dimension,
      raised |-> res.raised,
      store_changed |-> res.rows # before,
      failed_ids |-> [k \in 1..Len(res.failed_batch) |-> res.failed_batch[k].id],
      failed_rewrites |-> /\ res.failed_batch # <<>>
                          /\ RewritesStoredRow(res.failed_batch[1], res.pre_batch,
                                               vl_config.embedding_dimension),
      failed_touched |-> \E k \in 1..Len(res.failed_batch) :
          ~RowUntouched(res.failed_batch[k].id, res.pre_batch, res.rows) ]

(* lists of distinct chunks *)
ChunkLists ==
    {chunks \in SeqsUpTo(LoaderChunks, MaxChunks) :
        \A i, j \in 1..Len(chunks) : i # j => chunks[i] # chunks[j]}

VlLoadChunks ==
    /\ \E chunks \in ChunkLists : \E inj \in InjectionsFor(chunks) :
        LET res == LoadChunks(vl_store, chunks, vl_config, vl_connection, inj)
        IN /\ vl_store' = res.rows
           /\ vl_last' = LastCall("load_chunks", chunks, vl_store, res)
    /\ UNCHANGED <<vl_config, vl_engine, vl_connection, vl_open, vl_search>>
    /\ UNCHANGED <<chunkerVars, embedderVars, pipelineVars, auditVars, agentVars>>

VlUpsertChunks ==
    /\ \E chunks \in ChunkLists : \E inj \in InjectionsFor(chunks) :
        LET res == UpsertChunks(vl_store, chunks, vl_config, vl_connection, inj)
        IN /\ vl_store' = res.rows
           /\ vl_last' = LastCall("upsert_chunks", chunks, vl_store, res)
    /\ UNCHANGED <<vl_config, vl_engine, vl_connection, vl_open, vl_search>>
    /\ UNCHANGED <<chunkerVars, embedderVars, pipelineVars, auditVars, agentVars>>

(* PgVectorLoader.connect: a new engine and a new connection replace the
   fields; what the fields held before stays open *)
VlConnect ==
    /\ Cardinality(vl_open) + 2 <= 2 * MaxConnects
    /\ LET e == CHOOSE h \in 1..(2 * MaxConnects) : h \notin vl_open
           c == CHOOSE h \in 1..(2 * MaxConnects) : h \notin vl_open \cup {e}
       IN /\ vl_engine' = e
          /\ vl_connection' = c
          /\ vl_open' = vl_open \cup {e, c}
    /\ UNCHANGED <<vl_config, vl_store, vl_last, vl_search>>
    /\ UNCHANGED <<chunkerVars, embedderVars, pipelineVars, auditVars, agentVars>>

(* PgVectorLoader.disconnect *)
VlDisconnect ==
    /\ vl_connection' = NoHandle
    /\ vl_engine' = NoHandle
    /\ vl_open' = vl_open \ {vl_connection, vl_engine}
    /\ UNCHANGED <<vl_config, vl_store, vl_last, vl_search>>
    /\ UNCHANGED <<chunkerVars, embedderVars, pipelineVars, auditVars, agentVars>>

NoCall ==
    [ op |-> None, has_unfit |-> FALSE, has_fit |-> FALSE, has_other_length |-> FALSE,
      raised |-> None, store_changed |-> FALSE, failed_ids |-> <<>>,
      failed_rewrites |-> FALSE, failed_touched |-> FALSE ]

NoSearch ==
    [ query |-> <<>>, top_k |-> 0, filters |-> <<>>, raised |-> None, called |-> FALSE,
      result |-> <<>>, unfiltered |-> {} ]

LoaderConfigs ==
    [ batch_size : BatchSizes, upsert_mode : BOOLEAN,
      embedding_dimension : {EmbeddingDimension} ]

DefaultLoaderConfig ==
    [ batch_size |-> 2, upsert_mode |-> TRUE, embedding_dimension |-> EmbeddingDimension ]

LoaderInitWith(configs) ==
    /\ vl_config \in configs
    /\ vl_engine = NoHandle
    /\ vl_connection = NoHandle
    /\ vl_open = {}
    /\ vl_store = <<>>
    /\ vl_last = NoCall
    /\ vl_search = NoSearch

LoaderNext == VlConnect \/ VlDisconnect \/ VlLoadChunks \/ VlUpsertChunks

(* ------------- PgVectorLoader.get_best_matches (vector_loader.py) ------ *)

(* bound of the search model: rows in the store *)
MaxRows == 2

(* embeddings of stored rows; none is the zero vector, for which the cosine
   distance is not defined *)
SearchVectors == { <<1, 0>>, <<-1, 1>> }

(* query_embedding arguments: also an empty list and one of another length *)
Queries == SearchVectors \cup { <<>>, <<1>> }

(* metadata values of stored rows, a number and a string, and filter
   values, the string with the text of the number and the other string *)
MetaValues == { <<"int", "1">>, <<"str", "2">> }

FilterValues == { <<"str", "1">>, <<"str", "2">> }

(* filters: none, one on a key the rows have, one on a key they lack *)
NoFilters == <<>>

FilterMaps ==
    {NoFilters} \cup {[category |-> v] : v \in FilterValues} \cup {[owner |-> <<"str", "1">>]}

SearchRows ==
    [ document_id : {1}, chunk_index : {0}, content : {<<"a">>},
      embedding : SearchVectors, metadata : {[category |-> v] : v \in MetaValues} ]

(* the stores a search runs on: ids 1..n *)
SearchStores == UNION { [1..n -> SearchRows] : n \in 0..MaxRows }

(* str(value) of the filter parameter *)
PyStr(v) == v[2]

(* metadata->>'key': the JSON value as text *)
JsonText(v) == v[2]

(* WHERE metadata->>'k1' = %s AND metadata->>'k2' = %s ...; a key the row
   lacks gives NULL, which equals nothing *)
RowMatches(row, filters) ==
    \A key \in DOMAIN filters :
        /\ key \in DOMAIN row.metadata
        /\ JsonText(row.metadata[key]) = PyStr(filters[key])

RECURSIVE DotUpTo(_, _, _)
DotUpTo(a, b, n) == IF n = 0 THEN 0 ELSE DotUpTo(a, b, n - 1) + a[n] * b[n]

Dot(a, b) == DotUpTo(a, b, Len(a))

NormSq(a) == Dot(a, a)

SignedSq(x) == IF x >= 0 THEN x * x ELSE 0 - x * x

(* 1 - (a <=> q) <= 1 - (b <=> q): the cosine similarity of a to q is at most
   that of b, compared without roots: sgn(q.a) (q.a)^2 |b|^2 <= sgn(q.b) (q.b)^2 |a|^2 *)
SimLEReversed(q, a, b) ==
    SignedSq(Dot(q, b)) * NormSq(a) <= SignedSq(Dot(q, a)) * NormSq(b)

SimLE(q, a, b) ==
    SignedSq(Dot(q, a)) * NormSq(b) <= SignedSq(Dot(q, b)) * NormSq(a)

(* ORDER BY embedding <=> q LIMIT k over the candidate rows: every list of
   min(k, #candidates) distinct candidates in non-increasing similarity that
   leaves out no candidate more similar than one it holds; rows of equal
   distance come in any order *)
TopK(rows, cand, q, k) ==
    LET m == Min(k, Cardinality(cand))
    IN { r \in [1..m -> cand] :
           /\ \A i, j \in 1..m : i # j => r[i] # r[j]
           /\ \A i, j \in 1..m :
                 i < j => SimLE(q, rows[r[j]].embedding, rows[r[i]].embedding)
           /\ \A x \in cand \ Range(r) :
                 \A i \in 1..m : SimLE(q, rows[x].embedding, rows[r[i]].embedding) }

RECURSIVE KeepMatching(_, _, _)
KeepMatching(rows, r, filters) ==
    IF r = <<>> THEN <<>>
    ELSE IF RowMatches(rows[Head(r)], filters)
         THEN <<Head(r)>> \o KeepMatching(rows, Tail(r), filters)
         ELSE KeepMatching(rows, Tail(r), filters)

(* the rows the query returns, as their ids: the WHERE clause selects, then
   ORDER BY and LIMIT *)
BestMatchesFilteredAfterLimit(rows, q, k, filters) ==
    {KeepMatching(rows, r, filters) : r \in TopK(rows, DOMAIN rows, q, k)}

BestMatches(rows, q, k, filters) ==
    TopK(rows, {id \in DOMAIN rows : RowMatches(rows[id], filters)}, q, k)

(* PgVectorLoader.get_best_matches: what it raises, or the lists it can
   return.  LIMIT with a negative count is an error of the database *)
GetBestMatches(rows, q, k, filters, conn, dim) ==
    IF q = <<>> \/ Len(q) # dim THEN {[raised |-> "ValidationError", result |-> <<>>]}
    ELSE IF conn = NoHandle THEN {[raised |-> "ConnectionError", result |-> <<>>]}
    ELSE IF k < 0 THEN {[raised |-> "LoadingError", result |-> <<>>]}
    ELSE {[raised |-> None, result |-> r] : r \in BestMatches(rows, q, k, filters)}

(* a caller asks for the best matches with filters, and for the same
   embedding and top_k without filters *)
VlGetBestMatches ==
    /\ \E q \in Queries, k \in (0 - 1)..MaxRows, filters \in FilterMaps :
         \E res \in GetBestMatches(vl_store, q, k, filters, vl_connection,
                                   vl_config.embedding_dimension),
            plain \in GetBestMatches(vl_store, q, k, NoFilters, vl_connection,
                                     vl_config.embedding_dimension) :
            vl_search' = [ query |-> q, top_k |-> k, filters |-> filters,
                           raised |-> res.raised, called |-> TRUE,
                           result |-> res.result, unfiltered |-> Range(plain.result) ]
    /\ UNCHANGED <<vl_config, vl_engine, vl_connection, vl_open, vl_store, vl_last>>
    /\ UNCHANGED <<chunkerVars, embedderVars, pipelineVars, auditVars, agentVars>>

(* a connected loader over a filled store *)
SearchInit ==
    /\ vl_config = DefaultLoaderConfig
    /\ vl_engine = 1
    /\ vl_connection = 2
    /\ vl_open = {1, 2}
    /\ vl_store \in SearchStores
    /\ vl_last = NoCall
    /\ vl_search = NoSearch

SearchNext == VlGetBestMatches \/ VlDisconnect

(* ======================= Embedder (embedder.py) ======================== *)

(* bound of the embedder model *)
MaxTexts == 2

(* max_attempts of @retry_api_call on Embedder.embed *)
RetryMaxAttempts == 3

(* texts handed to embed_batch, and to embed; the last one is blank *)
BatchTexts == { <<"a">>, <<"b">> }

EmbedTexts == BatchTexts \cup { <<" ">> }

(* answers of the embedding provider to a request for one text *)
TransientErrors == {"rate_limit", "timeout"}

ProviderAnswers == {"ok", "other_dimension"} \cup TransientErrors

(* answers of the provider to a request for a batch of texts *)
BatchAnswers == {"ok", "other_dimension", "error"}

(* the vector the provider computes for a text *)
ProviderVector(text, answer, dim) ==
    IF answer = "ok" THEN Vec(text, dim) ELSE Vec(text, dim - 1)

(* content_hash(text): a collision-free digest of the text *)
ContentHash(text) == <<"sha256", text>>

CachePut(cache, key, v) ==
    [k \in DOMAIN cache \cup {key} |-> IF k = key THEN v ELSE cache[k]]

Returned(v, cache, called) ==
    [outcome |-> "returned", value |-> v, error |-> None, cache |-> cache, called |-> called]

Raised(err, cache, called) ==
    [outcome |-> "raised", value |-> <<>>, error |-> err, cache |-> cache, called |-> called]

(* one execution of the body of Embedder.embed; answer is what the provider
   answers if it is asked *)
EmbedBody(cfg, cache, text, answer) ==
    IF ~cfg.enabled THEN Raised("disabled", cache, FALSE)
    ELSE IF Strip(text) = <<>> THEN Raised("empty_text", cache, FALSE)
    ELSE IF cfg.cache_enabled /\ ContentHash(text) \in DOMAIN cache
    THEN Returned(cache[ContentHash(text)], cache, FALSE)
    ELSE IF answer \in TransientErrors THEN Raised(answer, cache, TRUE)
    ELSE LET embedding == ProviderVector(text, answer, cfg.dimension)
             cache2 == IF cfg.cache_enabled
                       THEN CachePut(cache, ContentHash(text), embedding)
                       ELSE cache
         IN IF Len(embedding) # cfg.dimension
            THEN Raised("dimension_mismatch", cache2, TRUE)
            ELSE Returned(embedding, cache2, TRUE)

(* stop_after_attempt(max_attempts) with retry_if_exception_type((EmbeddingError,
   ConnectionError, TimeoutError, Exception)): every exception is retried
   until the attempt count is reached *)
RetriesForever(attempt, err) == TRUE

ShouldRetry(attempt, err) == attempt < RetryMaxAttempts

NoEmbed ==
    [ active |-> FALSE, text |-> <<>>, attempt |-> 0, provider_calls |-> 0,
      history |-> <<>>, outcome |-> None, value |-> <<>>, error |-> None ]

StartEmbed(text) ==
    [ active |-> TRUE, text |-> text, attempt |-> 0, provider_calls |-> 0,
      history |-> <<>>, outcome |-> "running", value |-> <<>>, error |-> None ]

(* the invocation of embed() after one more attempt whose body did r *)
AfterAttempt(e, r, answer) ==
    LET n == e.attempt + 1
        retry == r.outcome = "raised" /\ ShouldRetry(n, r.error)
    IN [ active |-> retry,
         text |-> e.text,
         attempt |-> n,
         provider_calls |-> e.provider_calls + (IF r.called THEN 1 ELSE 0),
         history |-> IF r.called THEN Append(e.history, answer) ELSE e.history,
         outcome |-> IF retry THEN "running" ELSE r.outcome,
         value |-> IF retry THEN <<>> ELSE r.value,
         error |-> r.error ]

IdleCall == [kind |-> None, texts |-> <<>>, status |-> "idle", result |-> <<>>, error |-> None]

NoBatch ==
    [ pc |-> None, i |-> 0, all |-> <<>>, fb_batch |-> 0, fb_j |-> 0, fb_acc |-> <<>>,
      results |-> <<>>, futures |-> <<>>, completed |-> <<>>, overlapped |-> FALSE ]

(* the caller calls embed(text) *)
EmCallEmbed ==
    /\ em_call.status # "running"
    /\ \E text \in EmbedTexts :
         /\ em_call' = [kind |-> "embed", texts |-> <<text>>, status |-> "running",
                        result |-> <<>>, error |-> None]
         /\ em_embed' = StartEmbed(text)
    /\ em_batch' = NoBatch
    /\ UNCHANGED <<em_config, em_cache>>
    /\ UNCHANGED <<chunkerVars, loaderVars, pipelineVars, auditVars, agentVars>>

(* one attempt of embed() called directly; when it is the last one the call
   returns or raises *)
EmEmbedAttempt ==
    /\ em_call.kind = "embed" /\ em_call.status = "running"
    /\ em_embed.active
    /\ \E answer \in ProviderAnswers :
         LET r == EmbedBody(em_config, em_cache, em_embed.text, answer)
             e == AfterAttempt(em_embed, r, answer)
         IN /\ r.called \/ answer = "ok"
            /\ em_embed' = e
            /\ em_cache' = r.cache
            /\ em_call' = IF e.active THEN em_call
                          ELSE [em_call EXCEPT !.status = e.outcome,
                                               !.result = <<e.value>>,
                                               !.error = IF e.outcome = "raised"
                                                         THEN "EmbeddingError" ELSE None]
    /\ UNCHANGED <<em_config, em_batch>>
    /\ UNCHANGED <<chunkerVars, loaderVars, pipelineVars, auditVars, agentVars>>

(* number of slices texts[i:i + batch_size] *)
NumBatches(texts, bs) == (Len(texts) + bs - 1) \div bs

(* [item.embedding for item in response.data] for a batch request *)
BatchVectors(batch, answer, dim) ==
    [k \in 1..Len(batch) |-> ProviderVector(batch[k], answer, dim)]

(* results is the dict batch index -> embeddings, kept in insertion order as
   a sequence of pairs *)
ResultKeys(results) == {results[k][1] : k \in 1..Len(results)}

ResultOf(results, idx) ==
    LET k == CHOOSE k \in 1..Len(results) : results[k][1] = idx IN results[k][2]

(* for batch_idx in results.keys(): all_embeddings.extend(...) *)
ReassembleUnsorted(results) == Concat([k \in 1..Len(results) |-> results[k][2]])

(* for batch_idx in sorted(results.keys()): all_embeddings.extend(...) *)
Reassemble(results) ==
    LET keys == SortedSeq(ResultKeys(results))
    IN Concat([k \in 1..Len(keys) |-> ResultOf(results, keys[k])])

(* `for text in batch: embedding = self.embed(text)` of the except branch:
   the j-th text handed to embed *)
FallbackTextFirst(batch, j) == batch[1]

FallbackText(batch, j) == batch[j]

CallReturned(call, result) ==
    [call EXCEPT !.status = "returned", !.result = result]

CallRaised(call, err) ==
    [call EXCEPT !.status = "raised", !.error = err]

(* the caller calls embed_batch(texts); in parallel mode every batch is
   submitted to the pool *)
EmCallEmbedBatch ==
    /\ em_call.status # "running"
    /\ \E texts \in SeqsUpTo(BatchTexts, MaxTexts) :
         LET call == [kind |-> "embed_batch", texts |-> texts, status |-> "running",
                      result |-> <<>>, error |-> None]
             n == NumBatches(texts, em_config.batch_size)
         IN IF texts = <<>>
            THEN /\ em_call' = CallReturned(call, <<>>)
                 /\ em_batch' = NoBatch
            ELSE IF em_config.parallel_processing
            THEN /\ em_call' = call
                 /\ em_batch' = [NoBatch EXCEPT !.pc = "par",
                        !.futures = [b \in 1..n |-> [state |-> "running", value |-> <<>>]]]
            ELSE /\ em_call' = call
                 /\ em_batch' = [NoBatch EXCEPT !.pc = "seq", !.i = 1]
    /\ em_embed' = NoEmbed
    /\ UNCHANGED <<em_config, em_cache>>
    /\ UNCHANGED <<chunkerVars, loaderVars, pipelineVars, auditVars, agentVars>>

(* one iteration of the loop of _embed_batch_openai_sequential: the batch
   request, and on its failure the start of the item by item fallback *)
EmSequentialBatch ==
    /\ em_call.status = "running" /\ em_batch.pc = "seq"
    /\ \E answer \in BatchAnswers :
         LET batch == BatchOf(em_call.texts, em_batch.i, em_config.batch_size)
             n == NumBatches(em_call.texts, em_config.batch_size)
             all2 == em_batch.all \o BatchVectors(batch, answer, em_config.dimension)
         IN IF answer = "error"
            THEN /\ em_batch' = [em_batch EXCEPT !.pc = "fallback_seq",
                                    !.fb_batch = em_batch.i, !.fb_j = 1]
                 /\ em_embed' = StartEmbed(FallbackText(batch, 1))
                 /\ em_call' = em_call
            ELSE IF em_batch.i = n
            THEN /\ em_batch' = [em_batch EXCEPT !.pc = None, !.all = all2]
                 /\ em_call' = CallReturned(em_call, all2)
                 /\ em_embed' = em_embed
            ELSE /\ em_batch' = [em_batch EXCEPT !.i = em_batch.i + 1, !.all = all2]
                 /\ UNCHANGED <<em_call, em_embed>>
    /\ UNCHANGED <<em_config, em_cache>>
    /\ UNCHANGED <<chunkerVars, loaderVars, pipelineVars, auditVars, agentVars>>

(* a pool worker finishes _process_single_batch for batch idx; the pool runs
   at most max_workers batches at a time, in submission order *)
MaxWorkers == 5

EmWorkerFinishes ==
    /\ em_call.status = "running" /\ em_batch.pc \in {"par", "fallback_par"}
    /\ \E idx \in DOMAIN em_batch.futures, answer \in BatchAnswers :
         /\ em_batch.futures[idx].state = "running"
         /\ Cardinality({b \in 1..(idx - 1) : em_batch.futures[b].state = "running"})
               < MaxWorkers
         /\ LET batch == BatchOf(em_call.texts, idx, em_config.batch_size)
                f == IF answer = "error"
                     THEN [state |-> "raised", value |-> <<>>]
                     ELSE [state |-> "returned",
                           value |-> BatchVectors(batch, answer, em_config.dimension)]
            IN em_batch' = [em_batch EXCEPT !.futures[idx] = f,
                                            !.completed = Append(@, idx)]
    /\ UNCHANGED <<em_config, em_cache, em_call, em_embed>>
    /\ UNCHANGED <<chunkerVars, loaderVars, pipelineVars, auditVars, agentVars>>

(* the end of the collection loop of _embed_batch_openai_parallel *)
AfterCollected(b, call) ==
    IF Len(b.results) = Len(b.futures)
    THEN [batch |-> [b EXCEPT !.pc = None], call |-> CallReturned(call, Reassemble(b.results))]
    ELSE [batch |-> [b EXCEPT !.pc = "par"], call |-> call]

(* the main thread takes the next completed future from as_completed *)
EmCollect ==
    /\ em_call.status = "running" /\ em_batch.pc = "par"
    /\ em_batch.completed # <<>>
    /\ LET idx == Head(em_batch.completed)
           f == em_batch.futures[idx]
           b == [em_batch EXCEPT !.completed = Tail(@)]
       IN IF f.state = "returned"
          THEN LET a == AfterCollected(
                          [b EXCEPT !.results = Append(@, <<idx, f.value>>)], em_call)
               IN /\ em_batch' = a.batch
                  /\ em_call' = a.call
                  /\ em_embed' = em_embed
          ELSE /\ em_batch' = [b EXCEPT !.pc = "fallback_par", !.fb_batch = idx,
                                 !.fb_j = 1, !.fb_acc = <<>>,
                                 !.overlapped = @ \/ \E k \in DOMAIN b.futures :
                                                        b.futures[k].state = "running"]
               /\ em_embed' = StartEmbed(
                     FallbackText(BatchOf(em_call.texts, idx, em_config.batch_size), 1))
               /\ em_call' = em_call
    /\ UNCHANGED <<em_config, em_cache>>
    /\ UNCHANGED <<chunkerVars, loaderVars, pipelineVars, auditVars, agentVars>>

(* one attempt of embed() for an item of a failed batch, in either mode; the
   last attempt of the item ends the item, and the last item ends the batch *)
EmFallbackAttempt ==
    /\ em_call.status = "running" /\ em_batch.pc \in {"fallback_seq", "fallback_par"}
    /\ em_embed.active
    /\ \E answer \in ProviderAnswers :
         LET r == EmbedBody(em_config, em_cache, em_embed.text, answer)
             e == AfterAttempt(em_embed, r, answer)
             batch == BatchOf(em_call.texts, em_batch.fb_batch, em_config.batch_size)
             n == NumBatches(em_call.texts, em_config.batch_size)
             seq == em_batch.pc = "fallback_seq"
         IN /\ r.called \/ answer = "ok"
            /\ em_cache' = r.cache
            /\ IF e.active
               THEN /\ em_embed' = e
                    /\ UNCHANGED <<em_call, em_batch>>
               ELSE IF e.outcome = "raised"
               THEN /\ em_embed' = e
                    /\ em_call' = CallRaised(em_call, "EmbeddingError")
                    /\ em_batch' = [em_batch EXCEPT !.pc = None]
               ELSE IF em_batch.fb_j < Len(batch)
               THEN /\ em_embed' = StartEmbed(FallbackText(batch, em_batch.fb_j + 1))
                    /\ em_call' = em_call
                    /\ em_batch' = IF seq
                         THEN [em_batch EXCEPT !.fb_j = @ + 1, !.all = Append(@, e.value)]
                         ELSE [em_batch EXCEPT !.fb_j = @ + 1, !.fb_acc = Append(@, e.value)]
               ELSE IF seq
               THEN LET all2 == Append(em_batch.all, e.value)
                    IN /\ em_embed' = e
                       /\ IF em_batch.fb_batch = n
                          THEN /\ em_batch' = [em_batch EXCEPT !.pc = None, !.all = all2]
                               /\ em_call' = CallReturned(em_call, all2)
                          ELSE /\ em_batch' = [em_batch EXCEPT !.pc = "seq",
                                                 !.i = em_batch.fb_batch + 1, !.all = all2]
                               /\ em_call' = em_call
               ELSE LET a == AfterCollected(
                               [em_batch EXCEPT !.results = Append(@,
                                   <<em_batch.fb_batch, Append(em_batch.fb_acc, e.value)>>),
                                   !.fb_acc = <<>>], em_call)
                    IN /\ em_embed' = e
                       /\ em_batch' = a.batch
                       /\ em_call' = a.call
    /\ UNCHANGED em_config
    /\ UNCHANGED <<chunkerVars, loaderVars, pipelineVars, auditVars, agentVars>>

EmbedderConfig(retries, bs, par, cache, on) ==
    [ max_retries |-> retries, batch_size |-> bs, parallel_processing |-> par,
      cache_enabled |-> cache, enabled |-> on, dimension |-> EmbeddingDimension ]

(* the default max_retries with every batching and caching mode, a smaller
   max_retries, and a disabled embedder *)
EmbedderConfigs ==
    { EmbedderConfig(3, bs, par, cache, TRUE) :
          bs \in {1, 2}, par \in BOOLEAN, cache \in BOOLEAN }
    \cup { EmbedderConfig(1, 2, FALSE, FALSE, TRUE), EmbedderConfig(3, 2, FALSE, FALSE, FALSE) }

DefaultEmbedderConfig ==
    [ max_retries |-> 3, batch_size |-> 2, parallel_processing |-> FALSE,
      cache_enabled |-> FALSE, enabled |-> TRUE, dimension |-> EmbeddingDimension ]

EmbedderInitWith(configs) ==
    /\ em_config \in configs
    /\ em_cache = <<>>
    /\ em_call = IdleCall
    /\ em_embed = NoEmbed
    /\ em_batch = NoBatch

EmbedderNext ==
    \/ EmCallEmbed \/ EmEmbedAttempt
    \/ EmCallEmbedBatch \/ EmSequentialBatch \/ EmWorkerFinishes \/ EmCollect
    \/ EmFallbackAttempt

(* ===================== ETLPipeline (main.py) =========================== *)

(* bounds of the pipeline model *)
MaxDocs == 2
MaxRuns == 2

Sources == [k \in 1..MaxDocs |-> "s" \o ToString(k)]

(* file contents: one segment, or two segments *)
FileTexts == { << <<"a">> >>, << <<"a", " ">>, <<"b">> >> }

(* up to MaxDocs files of the same content *)
FileSets == { [k \in 1..n |-> text] : n \in 1..MaxDocs, text \in FileTexts }

(* FilesystemExtractor.extract: one RawDocument per file, each with a new id *)
Extract(files, uuidBase) ==
    [k \in 1..Len(files) |->
        [id |-> uuidBase + k - 1, source |-> Sources[k], content |-> files[k]]]

(* Normalizer.normalize: the text stripped at both ends; the Document keeps
   the id of the RawDocument *)
StripEnds(text) ==
    IF text = <<>> THEN text
    ELSE LET t1 == [text EXCEPT ![1] = LStrip(@)]
         IN [t1 EXCEPT ![Len(t1)] = RStrip(@)]

Normalize(raw) ==
    [id |-> raw.id, source |-> raw.source, content |-> StripEnds(raw.content)]

(* MetadataEnricher.enrich_chunk, called for every chunk by _enrich_metadata *)
EnrichChunk(chunk, doc, now) ==
    [chunk EXCEPT !.metadata = [@ EXCEPT !.source = doc.source, !.enriched_at = now]]

EnrichMetadata(chunks, doc, now) ==
    [k \in 1..Len(chunks) |-> EnrichChunk(chunks[k], doc, now)]

(* Embedder.embed_chunks: each chunk with the vector embed_batch returned at
   its position *)
EmbedChunks(chunks, answer, dim) ==
    [k \in 1..Len(chunks) |->
        [chunks[k] EXCEPT !.embedding = ProviderVector(chunks[k].content, answer, dim)]]

AuditEvent(type, source, docId, status, count, at) ==
    [ event_type |-> type, source_path |-> source, document_id |-> docId,
      status |-> status, chunks |-> count, processed_at |-> at ]

(* ETLPipeline._audit: log_extraction, log_transformation, log_loading; the
   first that raises ends it (fail = 1, 2, 3; 0: none raises) *)
Audit(events, raw, doc, count, success, fail) ==
    LET status == IF success THEN "success" ELSE "failed"
        at == Len(events) + 1
        e1 == AuditEvent("extraction", raw.source, 0, status, 0, at)
        e2 == AuditEvent("transformation", "", doc.id, status, count, at + 1)
        e3 == AuditEvent("loading", "", 0, status, IF success THEN count ELSE 0, at + 2)
        all == <<e1, e2, e3>>
        n == IF fail = 0 THEN 3 ELSE fail - 1
    IN events \o SubSeq(all, 1, n)

(* the except branch of the document loop: stats['errors'].append(...), then
   continue or raise; the audit log is as it was *)
AuditOfFailedDocumentAsSuccess(events, raw, doc, fail) ==
    Audit(events, raw, doc, 0, TRUE, fail)

AuditOfFailedDocument(events, raw, doc, fail) == events

(* stats; of stats['errors'] the number of entries *)
FreshStats == [documents_processed |-> 0, chunks_created |-> 0, errors |-> 0, success |-> FALSE]

(* where the database fails during the load of a document: nowhere, or at
   the first chunk *)
LoadInjections == {0, 1}

(* which call of _audit raises: none, or log_transformation *)
AuditFailures == {0, 2}

TransformStages == {"normalize", "chunk", "enrich", "embed"}

(* run() up to the document loop: connect the loaders (outside the try),
   then extract; a failing extraction runs the finally block *)
PlStart ==
    /\ pl_pc # "loop" /\ pl_run < MaxRuns
    /\ pl_run' = pl_run + 1
    /\ \E outcome \in {"ok", "vector_connect_fails", "audit_connect_fails", "extract_fails"} :
         /\ IF outcome \in {"ok", "audit_connect_fails"}
            THEN /\ vl_engine' = 1
                 /\ vl_connection' = 2
                 /\ vl_open' = vl_open \cup {1, 2}
            ELSE /\ vl_engine' = NoHandle
                 /\ vl_connection' = NoHandle
                 /\ vl_open' = vl_open \ {vl_engine, vl_connection}
         /\ au_connection' = IF outcome = "ok" THEN 3 ELSE NoHandle
         /\ IF outcome = "ok"
            THEN /\ pl_pc' = "loop"
                 /\ pl_documents' = Extract(pl_files, nextUuid)
                 /\ nextUuid' = nextUuid + Len(pl_files)
            ELSE /\ pl_pc' = "raised"
                 /\ pl_documents' = <<>>
                 /\ nextUuid' = nextUuid
    /\ pl_next' = 1
    /\ pl_outcomes' = <<>>
    /\ pl_stats' = FreshStats
    /\ UNCHANGED <<vl_config, vl_store, vl_last, vl_search, au_events, pl_config, pl_files,
                   pl_snapshots>>
    /\ UNCHANGED <<ck_document, ck_chunks, embedderVars, auditVars, agentVars>>

(* after a document: the loop goes on when the document succeeded, or in the
   except branch when continue_on_error is set (`continue`, else `raise`) *)
LoopStopsOnError(ok, cfg) == ok

LoopGoesOn(ok, cfg) == ok \/ cfg.continue_on_error

(* one iteration of `for raw_doc in documents`: the stages in order, the
   audit after a load that succeeded, the except branch otherwise.  The
   ids the chunks of the document would take are not used again, whether or
   not the chunk stage was reached: an id is only ever a new one *)
PlProcessDocument ==
    /\ pl_pc = "loop" /\ pl_next <= Len(pl_documents)
    /\ \E fail \in TransformStages \cup {"none"}, answer \in {"ok", "other_dimension"},
          inj \in LoadInjections, auditFail \in AuditFailures :
         LET raw == pl_documents[pl_next]
             doc == Normalize(raw)
             chunks == ChunkDocument(doc, nextUuid)
             enriched == EnrichMetadata(chunks, doc, pl_run)
             embedded == EmbedChunks(enriched, answer, vl_config.embedding_dimension)
             res == LoadChunks(vl_store, embedded, vl_config, vl_connection, inj)
             ok == fail = "none" /\ res.raised = None
             outcome == IF ok THEN "success" ELSE "failed"
         IN /\ fail # "none" => (answer = "ok" /\ inj = 0)
            /\ ~ok => auditFail = 0
            /\ nextUuid' = nextUuid + Len(chunks)
            /\ vl_store' = IF fail = "none" THEN res.rows ELSE vl_store
            /\ au_events' = IF ok
                            THEN Audit(au_events, raw, doc, Len(embedded), TRUE, auditFail)
                            ELSE AuditOfFailedDocument(au_events, raw, doc, auditFail)
            /\ pl_outcomes' = Append(pl_outcomes, outcome)
            /\ pl_stats' = IF ok
                 THEN [pl_stats EXCEPT !.documents_processed = @ + 1,
                                       !.chunks_created = @ + Len(embedded)]
                 ELSE [pl_stats EXCEPT !.errors = @ + 1]
            /\ pl_next' = pl_next + 1
            /\ IF LoopGoesOn(ok, pl_config)
               THEN UNCHANGED <<pl_pc, vl_engine, vl_connection, vl_open, au_connection>>
               ELSE /\ pl_pc' = "raised"
                    /\ vl_engine' = NoHandle
                    /\ vl_connection' = NoHandle
                    /\ vl_open' = vl_open \ {vl_engine, vl_connection}
                    /\ au_connection' = NoHandle
    /\ UNCHANGED <<vl_config, vl_last, vl_search, pl_config, pl_files, pl_run, pl_documents,
                   pl_snapshots>>
    /\ UNCHANGED <<ck_document, ck_chunks, embedderVars, auditVars, agentVars>>

(* the end of the loop: stats['success'], the finally block, return stats *)
PlFinish ==
    /\ pl_pc = "loop" /\ pl_next > Len(pl_documents)
    /\ pl_pc' = "returned"
    /\ pl_stats' = [pl_stats EXCEPT !.success = TRUE]
    /\ pl_snapshots' = Append(pl_snapshots,
                          [rows |-> vl_store, outcomes |-> pl_outcomes])
    /\ vl_engine' = NoHandle
    /\ vl_connection' = NoHandle
    /\ vl_open' = vl_open \ {vl_engine, vl_connection}
    /\ au_connection' = NoHandle
    /\ UNCHANGED <<vl_config, vl_store, vl_last, vl_search, au_events, pl_config, pl_files, pl_run,
                   pl_documents, pl_next, pl_outcomes>>
    /\ UNCHANGED <<chunkerVars, embedderVars, auditVars, agentVars>>

(* main(): sys.exit(0 if stats['success'] else 1) after run() returned,
   sys.exit(1) in the except branch when run() raised *)
ExitStatusFromErrors(pc, stats) == IF pc = "returned" /\ stats.errors = 0 THEN 0 ELSE 1

ExitStatus(pc, stats) == IF pc = "returned" /\ stats.success THEN 0 ELSE 1

PipelineInitWith(fileSets) ==
    /\ au_connection = NoHandle
    /\ au_events = <<>>
    /\ pl_config \in [continue_on_error : BOOLEAN, incremental : BOOLEAN]
    /\ pl_files \in fileSets
    /\ pl_run = 0
    /\ pl_pc = "idle"
    /\ pl_documents = <<>>
    /\ pl_next = 1
    /\ pl_outcomes = <<>>
    /\ pl_stats = FreshStats
    /\ pl_snapshots = <<>>

PipelineNext == PlStart \/ PlProcessDocument \/ PlFinish

(* ==================== AuditLoader (audit_loader.py) ==================== *)

(* bound of the audit model: events logged *)
MaxEvents == 2

(* max_attempts of @retry_connection on AuditLoader.connect *)
ConnectAttempts == 5

(* db_type *)
Backends == {"postgresql", "sqlite", "jsonl"}

(* a loader as __init__ leaves it, in an environment without the audit
   table and without the directory of the log file; events are the rows of
   the table, or the lines of the log file *)
FreshAudit ==
    [ engine |-> NoHandle, connection |-> NoHandle, open |-> {}, table |-> FALSE,
      dir |-> FALSE, events |-> <<>> ]

(* the values of datetime.utcnow() in the order of time, each as
   <<seconds, microseconds>> *)
AuditTimes == << <<1, 0>>, <<1, 5>> >>

(* datetime.isoformat(): the fixed-width fields of the timestamp, without
   the fraction when the microseconds are zero *)
Iso(t) == IF t[2] = 0 THEN <<t[1]>> ELSE <<t[1], t[2]>>

(* the timestamp a TIMESTAMP column holds for an ISO string *)
ParseTimestamp(str) == IF Len(str) = 1 THEN <<str[1], 0>> ELSE <<str[1], str[2]>>

(* a < b on strings *)
RECURSIVE StrLess(_, _)
StrLess(a, b) ==
    IF b = <<>> THEN FALSE
    ELSE IF a = <<>> THEN TRUE
    ELSE IF a[1] # b[1] THEN a[1] < b[1]
    ELSE StrLess(Tail(a), Tail(b))

(* a < b on timestamps *)
TimeLess(a, b) == a[1] < b[1] \/ (a[1] = b[1] /\ a[2] < b[2])

NoTimestamp == <<>>

(* source_path arguments, and status arguments *)
AuditPaths == {"p", "q"}

AuditStatuses == {"success", "skipped", "done"}

(* the handles of attempt a of connect() number n + 1 *)
EngineOf(n, a) == 2 * ConnectAttempts * n + 2 * a - 1

ConnectionOf(n, a) == 2 * ConnectAttempts * n + 2 * a

(* AuditLoader.connect under @retry_connection, n connect() calls having
   been made before.  postgresql: a new engine and a new connection replace
   the fields, then the table is created.  sqlite: a new engine and a new
   connection replace the fields, then _create_table_if_not_exists hands
   four statements to one sqlite3 execute(), which raises; the attempt is
   made ConnectAttempts times.  jsonl: the directory of the log file is made *)
AuditConnect(b, s, n) ==
    IF b = "postgresql"
    THEN [ state |-> [s EXCEPT !.engine = EngineOf(n, 1),
                               !.connection = ConnectionOf(n, 1),
                               !.open = @ \cup {EngineOf(n, 1), ConnectionOf(n, 1)},
                               !.table = TRUE],
           raised |-> None ]
    ELSE IF b = "sqlite"
    THEN [ state |-> [s EXCEPT !.engine = EngineOf(n, ConnectAttempts),
                               !.connection = ConnectionOf(n, ConnectAttempts),
                               !.open = @ \cup UNION { {EngineOf(n, a), ConnectionOf(n, a)} :
                                                       a \in 1..ConnectAttempts }],
           raised |-> "ConnectionError" ]
    ELSE [ state |-> [s EXCEPT !.dir = TRUE], raised |-> None ]

(* AuditLoader.disconnect *)
AuditDisconnect(s) ==
    [s EXCEPT !.engine = NoHandle, !.connection = NoHandle,
              !.open = @ \ {s.engine, s.connection}]

(* _log_to_database: INSERT and commit *)
LogToDatabase(s, event) ==
    IF s.connection = NoHandle THEN [state |-> s, raised |-> "ConnectionError"]
    ELSE IF ~s.table THEN [state |-> s, raised |-> "LoadingError"]
    ELSE [state |-> [s EXCEPT !.events = Append(@, event)], raised |-> None]

(* _log_to_jsonl: open(log_file, "a"), one line *)
LogToJsonlRewriting(s, event) ==
    IF ~s.dir THEN [state |-> s, raised |-> "LoadingError"]
    ELSE [state |-> [s EXCEPT !.events = <<event>>], raised |-> None]

LogToJsonl(s, event) ==
    IF ~s.dir THEN [state |-> s, raised |-> "LoadingError"]
    ELSE [state |-> [s EXCEPT !.events = Append(@, event)], raised |-> None]

(* _log_event *)
LogEvent(b, s, event) ==
    IF b = "jsonl" THEN LogToJsonl(s, event) ELSE LogToDatabase(s, event)

(* the statuses log_extraction takes, and those log_transformation and
   log_loading take *)
ValidStatuses(type) ==
    IF type = "extraction" THEN {"success", "failed", "skipped"} ELSE {"success", "failed"}

(* log_extraction, log_transformation, log_loading: the status check, the
   event with processed_at = datetime.utcnow().isoformat(), _log_event *)
LogCall(b, s, type, path, status, now) ==
    IF status \notin ValidStatuses(type) THEN [state |-> s, raised |-> "ValueError"]
    ELSE LogEvent(b, s, AuditEvent(type, path, 0, status, 0, Iso(now)))

(* the greatest element of a non-empty set of timestamps, and of strings *)
MaxTime(S) == CHOOSE x \in S : \A y \in S : ~TimeLess(x, y)

MaxStr(S) == CHOOSE x \in S : \A y \in S : ~StrLess(x, y)

(* SELECT MAX(processed_at) ... WHERE source_path = %s AND status = 'success' *)
SelectedTimes(events, path) ==
    {events[i].processed_at : i \in {j \in 1..Len(events) :
        events[j].source_path = path /\ events[j].status = "success"}}

(* _get_last_processed_database: None without a connection, and None when
   the query raises (no table) *)
GetLastProcessedDatabase(b, s, path) ==
    IF s.connection = NoHandle \/ ~s.table THEN NoTimestamp
    ELSE IF SelectedTimes(s.events, path) = {} THEN NoTimestamp
    ELSE IF b = "postgresql"
    THEN Iso(MaxTime({ParseTimestamp(str) : str \in SelectedTimes(s.events, path)}))
    ELSE MaxStr(SelectedTimes(s.events, path))

(* the loop of _get_last_processed_jsonl over the lines of the file *)
RECURSIVE ScanJsonl(_, _, _)
ScanJsonl(events, path, last_processed) ==
    IF events = <<>> THEN last_processed
    ELSE LET event == Head(events)
             hit == /\ event.source_path = path
                    /\ event.status = "success"
                    /\ event.event_type = "extraction"
                    /\ event.processed_at # NoTimestamp
                    /\ (last_processed = NoTimestamp
                        \/ StrLess(last_processed, event.processed_at))
         IN ScanJsonl(Tail(events), path,
                      IF hit THEN event.processed_at ELSE last_processed)

(* _get_last_processed_jsonl: None when the file does not exist *)
GetLastProcessedJsonl(s, path) ==
    IF s.events = <<>> THEN NoTimestamp ELSE ScanJsonl(s.events, path, NoTimestamp)

GetLastProcessed(b, s, path) ==
    IF b = "jsonl" THEN GetLastProcessedJsonl(s, path)
    ELSE GetLastProcessedDatabase(b, s, path)

(* events grew by one event at the end *)
GrewByOne(before, after) ==
    /\ Len(after) = Len(before) + 1
    /\ SubSeq(after, 1, Len(before)) = before

NoAnswers == [b \in Backends |-> NoTimestamp]

NoRaise == [b \in Backends |-> None]

NoFlags == [b \in Backends |-> FALSE]

NoAuditCall ==
    [ op |-> None, path |-> "", status |-> "", raised |-> NoRaise, grew |-> NoFlags,
      kept |-> [b \in Backends |-> TRUE], idle |-> NoFlags, same |-> NoFlags,
      answer |-> NoAnswers ]

(* what a call did on each db_type *)
LastAuditCall(op, path, status, res) ==
    [ op |-> op, path |-> path, status |-> status,
      raised |-> [b \in Backends |-> res[b].raised],
      grew |-> [b \in Backends |-> GrewByOne(al[b].events, res[b].state.events)],
      kept |-> [b \in Backends |-> res[b].state.events = al[b].events],
      idle |-> [b \in Backends |->
                   al[b].engine = NoHandle /\ al[b].connection = NoHandle],
      same |-> [b \in Backends |-> res[b].state = al[b]],
      answer |-> NoAnswers ]

(* the same call is made on a loader of each db_type *)
AlConnect ==
    /\ al_connects < MaxConnects
    /\ LET res == [b \in Backends |-> AuditConnect(b, al[b], al_connects)]
       IN /\ al' = [b \in Backends |-> res[b].state]
          /\ al_last' = LastAuditCall("connect", "", "", res)
    /\ al_connects' = al_connects + 1
    /\ UNCHANGED al_clock
    /\ UNCHANGED <<chunkerVars, loaderVars, embedderVars, pipelineVars, agentVars>>

AlDisconnect ==
    /\ LET res == [b \in Backends |-> [state |-> AuditDisconnect(al[b]), raised |-> None]]
       IN /\ al' = [b \in Backends |-> res[b].state]
          /\ al_last' = LastAuditCall("disconnect", "", "", res)
    /\ UNCHANGED <<al_clock, al_connects>>
    /\ UNCHANGED <<chunkerVars, loaderVars, embedderVars, pipelineVars, agentVars>>

AlLog(type, path, status) ==
    /\ \A b \in Backends : Len(al[b].events) < MaxEvents
    /\ LET res == [b \in Backends |->
                      LogCall(b, al[b], type, path, status, AuditTimes[al_clock])]
       IN /\ al' = [b \in Backends |-> res[b].state]
          /\ al_last' = LastAuditCall("log_" \o type, path, status, res)
    /\ UNCHANGED <<al_clock, al_connects>>
    /\ UNCHANGED <<chunkerVars, loaderVars, embedderVars, pipelineVars, agentVars>>

AlLogExtraction ==
    \E path \in AuditPaths, status \in AuditStatuses : AlLog("extraction", path, status)

AlLogTransformation == \E status \in AuditStatuses : AlLog("transformation", "", status)

AlLogLoading == \E status \in AuditStatuses : AlLog("loading", "", status)

AlGetLastProcessed ==
    /\ \E path \in AuditPaths :
         al_last' = [ NoAuditCall EXCEPT
                        !.op = "get_last_processed", !.path = path,
                        !.answer = [b \in Backends |-> GetLastProcessed(b, al[b], path)] ]
    /\ UNCHANGED <<al, al_clock, al_connects>>
    /\ UNCHANGED <<chunkerVars, loaderVars, embedderVars, pipelineVars, agentVars>>

(* time passes *)
AlTick ==
    /\ al_clock < Len(AuditTimes)
    /\ al_clock' = al_clock + 1
    /\ UNCHANGED <<al, al_connects, al_last>>
    /\ UNCHANGED <<chunkerVars, loaderVars, embedderVars, pipelineVars, agentVars>>

(* the garbage collector closes the engines and connections that no field
   refers to *)
AlCollect ==
    /\ al' = [b \in Backends |->
                 [al[b] EXCEPT !.open = @ \cap {al[b].engine, al[b].connection}]]
    /\ UNCHANGED <<al_clock, al_connects, al_last>>
    /\ UNCHANGED <<chunkerVars, loaderVars, embedderVars, pipelineVars, agentVars>>

VlCollect ==
    /\ vl_open' = vl_open \cap {vl_engine, vl_connection}
    /\ UNCHANGED <<vl_config, vl_engine, vl_connection, vl_store, vl_last, vl_search>>
    /\ UNCHANGED <<chunkerVars, embedderVars, pipelineVars, auditVars, agentVars>>

AuditInit ==
    /\ al = [b \in Backends |-> FreshAudit]
    /\ al_clock = 1
    /\ al_connects = 0
    /\ al_last = NoAuditCall

AuditNext ==
    \/ AlConnect \/ AlDisconnect \/ AlLogExtraction \/ AlLogTransformation
    \/ AlLogLoading \/ AlGetLastProcessed \/ AlTick

ConnectNext ==
    \/ VlConnect \/ VlDisconnect \/ VlCollect
    \/ AlConnect \/ AlDisconnect \/ AlCollect

(* ============ RetrievalUtility (utils/retrieval.py) ==================== *)

(* bound of the retrieval model: the greatest top_k a caller asks for *)
MaxTopK == 2

(* A text is here a sequence of lower-case words.  The embedder maps every
   query text to one vector; the stored embeddings are chosen so that their
   magnitudes and their distances to the query are whole numbers, and every
   score is a fraction n/d with d > 0 *)
QueryVector == <<6, 0>>

NoText == <<>>

RetrievalRowList ==
    << [ document_id |-> 1, chunk_index |-> 0, content |-> <<"api">>,
         embedding |-> <<1, 0>>, metadata |-> [category |-> <<"str", "2">>] ],
       [ document_id |-> 1, chunk_index |-> 0, content |-> <<"db">>,
         embedding |-> <<2, 0>>, metadata |-> [category |-> <<"str", "2">>] ],
       [ document_id |-> 1, chunk_index |-> 0, content |-> <<"api">>,
         embedding |-> <<3, 4>>, metadata |-> [category |-> <<"str", "2">>] ] >>

(* the stores a retrieval runs on: any of the rows, each stored once *)
RetrievalStores ==
    UNION { { [i \in 1..n |-> RetrievalRowList[f[i]]] :
                f \in {g \in [1..n -> DOMAIN RetrievalRowList] :
                          \A i, j \in 1..n : i < j => g[i] < g[j]} } :
            n \in 0..Len(RetrievalRowList) }

Frac(n, d) == [n |-> n, d |-> d]

FracLess(x, y) == x.n * y.d < y.n * x.d

(* x ** 0.5 of a square number *)
Sqrt(x) == CHOOSE r \in 0..x : r * r <= x /\ (r + 1) * (r + 1) > x

RECURSIVE DistSqUpTo(_, _, _)
DistSqUpTo(a, b, n) ==
    IF n = 0 THEN 0 ELSE DistSqUpTo(a, b, n - 1) + (a[n] - b[n]) * (a[n] - b[n])

(* min_similarity: None, or a float *)
NoThreshold == [given |-> FALSE, value |-> Frac(0, 1)]

Threshold(n, d) == [given |-> TRUE, value |-> Frac(n, d)]

Thresholds == { NoThreshold, Threshold(0, 1), Threshold(15, 1) }

(* bool(min_similarity): None and 0.0 are false *)
Truthy(min_similarity) == min_similarity.given /\ min_similarity.value.n # 0

Metrics == { "cosine", "l2", "inner_product" }

(* RetrievalUtility._calculate_similarity, for vectors of one length and a
   metric of Metrics *)
CalculateSimilarity(vec1, vec2, metric) ==
    IF metric = "cosine"
    THEN LET magnitude1 == Sqrt(NormSq(vec1))
             magnitude2 == Sqrt(NormSq(vec2))
         IN IF magnitude1 = 0 \/ magnitude2 = 0 THEN Frac(0, 1)
            ELSE Frac(Dot(vec1, vec2), magnitude1 * magnitude2)
    ELSE IF metric = "l2"
    THEN Frac(1, 1 + Sqrt(DistSqUpTo(vec1, vec2, Len(vec1))))
    ELSE Frac(Dot(vec1, vec2), 1)

(* words of fewer than three letters, and stop words *)
ShortWords == { "db" }

StopWords == { "the" }

(* RetrievalUtility._extract_keywords *)
ExtractKeywords(text) ==
    SelectSeq(text, LAMBDA w : w \notin ShortWords /\ w \notin StopWords)

(* RetrievalUtility._calculate_keyword_score: the share of the keywords
   that the content holds *)
CalculateKeywordScore(content, keywords) ==
    IF keywords = <<>> THEN Frac(0, 1)
    ELSE Frac(Cardinality({i \in DOMAIN keywords : keywords[i] \in Range(content)}),
              Len(keywords))

(* a * 0.7 + b * 0.3 *)
Weighted(a, b) == Frac(7 * a.n * b.d + 3 * b.n * a.d, 10 * a.d * b.d)

(* the loop of get_best_matches over the chunks the store returned, from
   the chunk at position i on; rank is i + 1 for the i of enumerate() *)
RECURSIVE Collect(_, _, _, _, _, _, _, _)
Collect(rows, chunks, i, q, metric, min_similarity, top_k, results) ==
    IF i > Len(chunks) THEN results
    ELSE LET similarity == CalculateSimilarity(q, rows[chunks[i]].embedding, metric)
             more == Append(results, [ chunk |-> chunks[i],
                                       similarity_score |-> similarity,
                                       rank |-> i ])
         IN IF min_similarity.given /\ FracLess(similarity, min_similarity.value)
            THEN Collect(rows, chunks, i + 1, q, metric, min_similarity, top_k, results)
            ELSE IF Len(more) >= top_k THEN more
            ELSE Collect(rows, chunks, i + 1, q, metric, min_similarity, top_k, more)

(* top_k * 2 if min_similarity else top_k *)
FetchCount(top_k, min_similarity) == IF Truthy(min_similarity) THEN top_k * 2 ELSE top_k

(* RetrievalUtility.get_best_matches with an embedder: what it raises, or
   what the store returned and the list of SearchResult made of it *)
RuGetBestMatches(rows, conn, dim, query_embedding, query_text, top_k, filters, metric, min) ==
    IF query_embedding = NoEmbedding /\ query_text = NoText
    THEN {[raised |-> "ValidationError", fetched |-> <<>>, results |-> <<>>]}
    ELSE LET q == IF query_embedding = NoEmbedding THEN QueryVector ELSE query_embedding
         IN { IF res.raised # None
              THEN [raised |-> res.raised, fetched |-> <<>>, results |-> <<>>]
              ELSE [ raised |-> None, fetched |-> res.result,
                     results |-> Collect(rows, res.result, 1, q, metric,
                                         min, top_k, <<>>) ] :
              res \in GetBestMatches(rows, q, FetchCount(top_k, min),
                                     filters, conn, dim) }

(* list.sort(key = similarity_score, reverse = True): a stable sort *)
RECURSIVE InsertByScore(_, _)
InsertByScore(sorted, x) ==
    IF sorted = <<>> THEN <<x>>
    ELSE IF FracLess(Head(sorted).similarity_score, x.similarity_score)
         THEN <<x>> \o sorted
         ELSE <<Head(sorted)>> \o InsertByScore(Tail(sorted), x)

RECURSIVE SortByScore(_)
SortByScore(results) ==
    IF results = <<>> THEN <<>>
    ELSE InsertByScore(SortByScore(SubSeq(results, 1, Len(results) - 1)),
                       results[Len(results)])

(* results[:top_k] for top_k >= 0 *)
Prefix(s, k) == SubSeq(s, 1, Min(k, Len(s)))

(* the loop of hybrid_search: the combined score replaces the semantic one,
   a result below min_similarity is left out *)
RECURSIVE Combine(_, _, _, _)
Combine(rows, results, keywords, min_similarity) ==
    IF results = <<>> THEN <<>>
    ELSE LET result == Head(results)
             combined_score ==
                 Weighted(result.similarity_score,
                          CalculateKeywordScore(rows[result.chunk].content, keywords))
             rest == Combine(rows, Tail(results), keywords, min_similarity)
         IN IF min_similarity.given /\ FracLess(combined_score, min_similarity.value)
            THEN rest
            ELSE <<[result EXCEPT !.similarity_score = combined_score]>> \o rest

(* RetrievalUtility.hybrid_search with the weights 0.7 and 0.3 *)
RuHybridSearch(rows, conn, dim, query_text, top_k, filters, min_similarity) ==
    { IF sem.raised # None THEN sem
      ELSE [sem EXCEPT !.results =
                Prefix(SortByScore(Combine(rows, sem.results, ExtractKeywords(query_text),
                                           min_similarity)),
                       top_k)] :
      sem \in RuGetBestMatches(rows, conn, dim, NoEmbedding, query_text, top_k * 2,
                               filters, "cosine", NoThreshold) }

(* RetrievalUtility.rerank_results; top_k None or 0 returns the whole list *)
RuRerankResults(rows, results, query_text, top_k) ==
    LET sorted == SortByScore(Combine(rows, results, ExtractKeywords(query_text),
                                      NoThreshold))
    IN IF top_k # 0 THEN Prefix(sorted, top_k) ELSE sorted

NoRetrieval ==
    [ op |-> None, query_embedding |-> NoEmbedding, query_text |-> NoText, top_k |-> 0,
      similarity_metric |-> "cosine", min_similarity |-> NoThreshold, raised |-> None,
      fetched |-> <<>>, results |-> <<>> ]

(* the query a caller gives: an embedding, a text, or neither *)
RetrievalQueries ==
    { [query_embedding |-> QueryVector, query_text |-> NoText],
      [query_embedding |-> NoEmbedding, query_text |-> <<"api">>],
      [query_embedding |-> NoEmbedding, query_text |-> NoText] }

RuCallGetBestMatches ==
    /\ \E query \in RetrievalQueries, top_k \in 1..MaxTopK,
          metric \in Metrics, min_similarity \in Thresholds :
         \E out \in RuGetBestMatches(vl_store, vl_connection, vl_config.embedding_dimension,
                                     query.query_embedding, query.query_text, top_k,
                                     NoFilters, metric, min_similarity) :
            ru_last' = [ op |-> "get_best_matches",
                         query_embedding |-> query.query_embedding,
                         query_text |-> query.query_text, top_k |-> top_k,
                         similarity_metric |-> metric, min_similarity |-> min_similarity,
                         raised |-> out.raised, fetched |-> out.fetched,
                         results |-> out.results ]
    /\ UNCHANGED <<rt_last, ex, wf>>
    /\ UNCHANGED <<chunkerVars, loaderVars, embedderVars, pipelineVars, auditVars>>

RuCallHybridSearch ==
    /\ \E query_text \in { <<"api">>, <<"the">> }, top_k \in 1..MaxTopK,
          min_similarity \in Thresholds :
         \E out \in RuHybridSearch(vl_store, vl_connection, vl_config.embedding_dimension,
                                   query_text, top_k, NoFilters, min_similarity) :
            ru_last' = [ op |-> "hybrid_search", query_embedding |-> NoEmbedding,
                         query_text |-> query_text, top_k |-> top_k,
                         similarity_metric |-> "cosine", min_similarity |-> min_similarity,
                         raised |-> out.raised, fetched |-> out.fetched,
                         results |-> out.results ]
    /\ UNCHANGED <<rt_last, ex, wf>>
    /\ UNCHANGED <<chunkerVars, loaderVars, embedderVars, pipelineVars, auditVars>>

(* a caller reranks the list get_best_matches returned to it *)
RuCallRerankResults ==
    /\ ru_last.op = "get_best_matches"
    /\ ru_last.raised = None
    /\ \E top_k \in 0..1 :
         ru_last' = [ ru_last EXCEPT
                        !.op = "rerank_results", !.query_text = <<"api">>, !.top_k = top_k,
                        !.results = RuRerankResults(vl_store, ru_last.results, <<"api">>,
                                                    top_k) ]
    /\ UNCHANGED <<rt_last, ex, wf>>
    /\ UNCHANGED <<chunkerVars, loaderVars, embedderVars, pipelineVars, auditVars>>

RetrievalInit ==
    /\ vl_config = DefaultLoaderConfig
    /\ vl_engine = 1
    /\ vl_connection = 2
    /\ vl_open = {1, 2}
    /\ vl_store \in RetrievalStores
    /\ vl_last = NoCall
    /\ vl_search = NoSearch

RetrievalNext == RuCallGetBestMatches \/ RuCallHybridSearch \/ RuCallRerankResults

(* ===================== RAGTool (tools/rag_tool.py) ===================== *)

(* the fields of the Chunk model; iterating a Chunk yields one
   (name, value) pair for each of them *)
ChunkFields ==
    << "id", "document_id", "chunk_index", "content", "embedding", "metadata",
       "content_hash", "created_at" >>

(* config["similarity_threshold"], 0.0 when the key is missing *)
SimilarityThresholds == { Frac(0, 1), Frac(7, 10) }

(* the loop `for chunk, similarity in chunk_results`: the first element
   is unpacked into two names before anything else happens to it; an
   element that does not iterate over exactly two values raises ValueError.
   A pair of a Chunk field is (name, value), and a name has no content *)
RtRecords(rows, chunk_results, similarity_threshold) ==
    IF chunk_results = <<>> THEN [raised |-> None, records |-> <<>>]
    ELSE IF Len(ChunkFields) # 2 THEN [raised |-> "ValueError", records |-> <<>>]
    ELSE [raised |-> "AttributeError", records |-> <<>>]

NoRagCall ==
    [ called |-> FALSE, top_k |-> 0, similarity_threshold |-> Frac(0, 1),
      connect_failed |-> FALSE, store_raised |-> None, fetched |-> <<>>,
      raised |-> None, records |-> <<>> ]

(* RAGTool.retrieve_context over a PgVectorLoader: the loader is connected
   first when its _connection is None, and connect() may fail; every
   exception ends in `return []` *)
RtRetrieveContext ==
    \E top_k \in 1..MaxTopK, similarity_threshold \in SimilarityThresholds,
       connects \in BOOLEAN :
        LET must_connect == vl_connection = NoHandle
            e == CHOOSE h \in 1..(2 * MaxConnects) : h \notin vl_open
            c == CHOOSE h \in 1..(2 * MaxConnects) : h \notin vl_open \cup {e}
            connection == IF must_connect THEN c ELSE vl_connection
        IN /\ must_connect \/ connects
           /\ must_connect => Cardinality(vl_open) + 2 <= 2 * MaxConnects
           /\ IF must_connect /\ connects
              THEN /\ vl_engine' = e
                   /\ vl_connection' = c
                   /\ vl_open' = vl_open \cup {e, c}
              ELSE UNCHANGED <<vl_engine, vl_connection, vl_open>>
           /\ IF must_connect /\ ~connects
              THEN rt_last' = [ NoRagCall EXCEPT
                                  !.called = TRUE, !.top_k = top_k,
                                  !.similarity_threshold = similarity_threshold,
                                  !.connect_failed = TRUE, !.raised = "ConnectionError" ]
              ELSE \E res \in GetBestMatches(vl_store, QueryVector, top_k, NoFilters,
                                             connection, vl_config.embedding_dimension) :
                      LET out == IF res.raised # None
                                 THEN [raised |-> res.raised, records |-> <<>>]
                                 ELSE RtRecords(vl_store, res.result, similarity_threshold)
                      IN rt_last' = [ called |-> TRUE, top_k |-> top_k,
                                      similarity_threshold |-> similarity_threshold,
                                      connect_failed |-> FALSE,
                                      store_raised |-> res.raised,
                                      fetched |-> res.result,
                                      raised |-> out.raised, records |-> out.records ]
           /\ UNCHANGED <<vl_config, vl_store, vl_last, vl_search>>
           /\ UNCHANGED <<ru_last, ex, wf>>
           /\ UNCHANGED <<chunkerVars, embedderVars, pipelineVars, auditVars>>

RagNext == RtRetrieveContext \/ VlDisconnect

(* ======================= Extractors (extractors/) ====================== *)

(* bound of the extractor model: files or objects of the source *)
MaxObjects == 3

ExtractorVariants == { "filesystem", "github_api", "github_clone", "s3" }

(* a file or object of the source: whether it passes the extension and
   size checks, and whether reading, downloading and decoding it works *)
SourceObjects == [fits : BOOLEAN, readable : BOOLEAN]

(* what reading the object raises inside the loop body:
   _read_file, _download_file_content_api and _process_s3_object wrap every
   failure in ExtractionError, read_text of a cloned file raises OSError *)
ReadError(variant, object) ==
    IF object.readable THEN None
    ELSE IF variant = "github_clone" THEN "OSError"
    ELSE "ExtractionError"

(* whether the except clauses around the loop body swallow the error:
   the filesystem loop catches ExtractionError and Exception, the GitHub
   loops catch Exception, the S3 loop re-raises ExtractionError and
   catches every other Exception *)
LoopSwallows(variant, error) ==
    IF variant = "s3" THEN error # "ExtractionError" ELSE TRUE

IdleExtractor ==
    [ variant |-> "filesystem", objects |-> <<>>, pc |-> "idle", pos |-> 1,
      yielded |-> <<>> ]

(* extract() is called and the generator is started *)
ExExtract ==
    /\ ex.pc = "idle"
    /\ ex' = [ex EXCEPT !.pc = "running"]
    /\ UNCHANGED <<ru_last, rt_last, wf>>
    /\ UNCHANGED <<chunkerVars, loaderVars, embedderVars, pipelineVars, auditVars>>

(* one pass of the loop over the files or objects of the source *)
ExNextObject ==
    /\ ex.pc = "running"
    /\ ex.pos <= Len(ex.objects)
    /\ LET object == ex.objects[ex.pos]
           error == ReadError(ex.variant, object)
       IN ex' = IF ~object.fits THEN [ex EXCEPT !.pos = ex.pos + 1]
                ELSE IF error = None
                THEN [ex EXCEPT !.pos = ex.pos + 1, !.yielded = Append(ex.yielded, ex.pos)]
                ELSE IF LoopSwallows(ex.variant, error)
                THEN [ex EXCEPT !.pos = ex.pos + 1]
                ELSE [ex EXCEPT !.pc = "raised"]
    /\ UNCHANGED <<ru_last, rt_last, wf>>
    /\ UNCHANGED <<chunkerVars, loaderVars, embedderVars, pipelineVars, auditVars>>

(* the loop is over: the generator is exhausted *)
ExExhausted ==
    /\ ex.pc = "running"
    /\ ex.pos > Len(ex.objects)
    /\ ex' = [ex EXCEPT !.pc = "returned"]
    /\ UNCHANGED <<ru_last, rt_last, wf>>
    /\ UNCHANGED <<chunkerVars, loaderVars, embedderVars, pipelineVars, auditVars>>

ExtractorInit ==
    \E variant \in ExtractorVariants, objects \in SeqsUpTo(SourceObjects, MaxObjects) :
        ex = [IdleExtractor EXCEPT !.variant = variant, !.objects = objects]

ExtractorNext == ExExtract \/ ExNextObject \/ ExExhausted

(* ============ document workflow (orchestration/graph.py) =============== *)

(* bound of the workflow model: the greatest max_revisions of a run *)
MaxRevisions == 3

(* what the ReviewerAgent's output can look like to _run_agent: content
   that parses as JSON or not, review data with needs_revision true, false
   or absent, and metadata['needs_revision'] *)
ReviewOutputs ==
    { o \in [valid_json : BOOLEAN, in_data : {"absent", "true", "false"},
             in_metadata : BOOLEAN] :
        ~o.valid_json => o.in_data = "absent" }

(* the needs_revision that _run_agent takes from a reviewer output *)
NeedsRevision(output) ==
    IF output.valid_json /\ output.in_data # "absent"
    THEN output.in_data = "true"
    ELSE output.in_metadata

(* edges.should_revise *)
ShouldReviseLate(state) ==
    IF state.needs_revision
    THEN IF state.revision_count > state.max_revisions THEN "continue" ELSE "revise"
    ELSE "continue"

ShouldRevise(state) ==
    IF state.needs_revision
    THEN IF state.revision_count >= state.max_revisions THEN "continue" ELSE "revise"
    ELSE "continue"

(* the routing function of human_review:
   "approved" if state.get('state', {}).get('approved', False) else "revise".
   state['state'] is the DocumentState, a pydantic model with neither a get
   method nor an approved field: .get raises AttributeError *)
DocumentStateAttributes ==
    { "project_brief", "hld_draft", "lld_draft", "review_feedback", "needs_revision",
      "revision_count", "max_revisions", "final_document", "document_status",
      "retrieved_context", "processing_metadata" }

HumanReviewRoute(state) ==
    IF "get" \notin DocumentStateAttributes THEN "AttributeError"
    ELSE IF "approved" \in DocumentStateAttributes /\ state.approved THEN "approved"
    ELSE "revise"

(* DocumentState(project_brief = brief) and the graph state of main.py *)
IdleWorkflow ==
    [ node |-> "idle", needs_revision |-> FALSE, revision_count |-> 0,
      max_revisions |-> 3, review_feedback |-> None, document_status |-> "DRAFT",
      current_node |-> "", iteration_count |-> 0, route |-> None, loop_backs |-> 0 ]

(* review_feedback holds None or, of the review data stored in it, the value
   of needs_revision *)

(* what _run_agent does to the graph state after every agent *)
AfterAgent(w, agent_name) ==
    [w EXCEPT !.current_node = agent_name, !.iteration_count = w.iteration_count + 1]

(* workflow.invoke(graph_state): the entry point is draft_hld *)
WfInvoke ==
    /\ wf.node = "idle"
    /\ wf' = [wf EXCEPT !.node = "draft_hld"]
    /\ UNCHANGED <<ru_last, rt_last, ex>>
    /\ UNCHANGED <<chunkerVars, loaderVars, embedderVars, pipelineVars, auditVars>>

(* node draft_hld and its edge to draft_lld *)
WfDraftHld ==
    /\ wf.node = "draft_hld"
    /\ wf' = [AfterAgent(wf, "SystemArchitectAgent") EXCEPT !.node = "draft_lld"]
    /\ UNCHANGED <<ru_last, rt_last, ex>>
    /\ UNCHANGED <<chunkerVars, loaderVars, embedderVars, pipelineVars, auditVars>>

(* node draft_lld and its edge to review_doc *)
WfDraftLld ==
    /\ wf.node = "draft_lld"
    /\ wf' = [AfterAgent(wf, "APIDataAgent") EXCEPT !.node = "review_doc"]
    /\ UNCHANGED <<ru_last, rt_last, ex>>
    /\ UNCHANGED <<chunkerVars, loaderVars, embedderVars, pipelineVars, auditVars>>

(* node review_doc and the conditional edge should_revise *)
WfReviewDoc ==
    /\ wf.node = "review_doc"
    /\ \E output \in ReviewOutputs :
         LET needs_revision == NeedsRevision(output)
             reviewed ==
                 [AfterAgent(wf, "ReviewerAgent") EXCEPT
                    !.review_feedback = IF output.valid_json THEN output.in_data ELSE @,
                    !.needs_revision = needs_revision,
                    !.revision_count = IF needs_revision THEN @ + 1 ELSE @]
             route == ShouldRevise(reviewed)
         IN wf' = [reviewed EXCEPT
                     !.route = route,
                     !.node = IF route = "revise" THEN "draft_hld" ELSE "format_doc",
                     !.loop_backs = IF route = "revise" THEN @ + 1 ELSE @]
    /\ UNCHANGED <<ru_last, rt_last, ex>>
    /\ UNCHANGED <<chunkerVars, loaderVars, embedderVars, pipelineVars, auditVars>>

(* node format_doc and its edge to human_review *)
WfFormatDoc ==
    /\ wf.node = "format_doc"
    /\ wf' = [AfterAgent(wf, "WriterFormatterAgent") EXCEPT
                !.document_status = "REVIEW", !.node = "human_review"]
    /\ UNCHANGED <<ru_last, rt_last, ex>>
    /\ UNCHANGED <<chunkerVars, loaderVars, embedderVars, pipelineVars, auditVars>>

(* node human_review (check_hitl returns the state as it is) and its
   conditional edge: approved -> END, revise -> draft_hld *)
WfHumanReview ==
    /\ wf.node = "human_review"
    /\ LET route == HumanReviewRoute(wf)
       IN wf' = [wf EXCEPT !.node = IF route = "approved" THEN "END"
                                    ELSE IF route = "revise" THEN "draft_hld"
                                    ELSE "raised"]
    /\ UNCHANGED <<ru_last, rt_last, ex>>
    /\ UNCHANGED <<chunkerVars, loaderVars, embedderVars, pipelineVars, auditVars>>

WorkflowInit ==
    \E max_revisions \in 1..MaxRevisions :
        wf = [IdleWorkflow EXCEPT !.max_revisions = max_revisions]

WorkflowNext ==
    \/ WfInvoke \/ WfDraftHld \/ WfDraftLld \/ WfReviewDoc \/ WfFormatDoc
    \/ WfHumanReview

(* the agent-side components before their first call *)
AgentInit ==
    /\ ru_last = NoRetrieval
    /\ rt_last = NoRagCall
    /\ ex = IdleExtractor
    /\ wf = IdleWorkflow

IdleFiles == << << <<"a">> >> >>

(* the components a specification does not exercise start in one
   configuration and stay as they are *)
InitChunker ==
    /\ ChunkerInit
    /\ LoaderInitWith({DefaultLoaderConfig})
    /\ EmbedderInitWith({DefaultEmbedderConfig})
    /\ PipelineInitWith({IdleFiles}) /\ pl_config.continue_on_error /\ ~pl_config.incremental
    /\ AuditInit
    /\ AgentInit

SpecChunker == InitChunker /\ [][ChunkerNext]_vars

InitLoader ==
    /\ LoaderInitWith(LoaderConfigs)
    /\ ChunkerInit
    /\ EmbedderInitWith({DefaultEmbedderConfig})
    /\ PipelineInitWith({IdleFiles}) /\ pl_config.continue_on_error /\ ~pl_config.incremental
    /\ AuditInit
    /\ AgentInit

SpecLoader == InitLoader /\ [][LoaderNext]_vars

InitEmbedder ==
    /\ EmbedderInitWith(EmbedderConfigs)
    /\ ChunkerInit
    /\ LoaderInitWith({DefaultLoaderConfig})
    /\ PipelineInitWith({IdleFiles}) /\ pl_config.continue_on_error /\ ~pl_config.incremental
    /\ AuditInit
    /\ AgentInit

SpecEmbedder == InitEmbedder /\ [][EmbedderNext]_vars

InitSearch ==
    /\ SearchInit
    /\ ChunkerInit
    /\ EmbedderInitWith({DefaultEmbedderConfig})
    /\ PipelineInitWith({IdleFiles}) /\ pl_config.continue_on_error /\ ~pl_config.incremental
    /\ AuditInit
    /\ AgentInit

SpecSearch == InitSearch /\ [][SearchNext]_vars

(* the pipeline calls load_chunks with upsert_mode on *)
InitPipeline ==
    /\ PipelineInitWith(FileSets)
    /\ AuditInit
    /\ AgentInit
    /\ ChunkerInit
    /\ LoaderInitWith({DefaultLoaderConfig})
    /\ EmbedderInitWith({DefaultEmbedderConfig})

SpecPipeline == InitPipeline /\ [][PipelineNext]_vars

InitAudit ==
    /\ ChunkerInit
    /\ LoaderInitWith({DefaultLoaderConfig})
    /\ EmbedderInitWith({DefaultEmbedderConfig})
    /\ PipelineInitWith({IdleFiles}) /\ pl_config.continue_on_error /\ ~pl_config.incremental
    /\ AuditInit
    /\ AgentInit

SpecAudit == InitAudit /\ [][AuditNext]_vars

InitConnect == InitAudit

SpecConnect == InitConnect /\ [][ConnectNext]_vars

InitRetrieval ==
    /\ RetrievalInit
    /\ ChunkerInit
    /\ EmbedderInitWith({DefaultEmbedderConfig})
    /\ PipelineInitWith({IdleFiles}) /\ pl_config.continue_on_error /\ ~pl_config.incremental
    /\ AuditInit
    /\ AgentInit

SpecRetrieval == InitRetrieval /\ [][RetrievalNext]_vars

InitRag == InitRetrieval

SpecRag == InitRag /\ [][RagNext]_vars

InitExtractor ==
    /\ ExtractorInit
    /\ ru_last = NoRetrieval /\ rt_last = NoRagCall /\ wf = IdleWorkflow
    /\ ChunkerInit
    /\ LoaderInitWith({DefaultLoaderConfig})
    /\ EmbedderInitWith({DefaultEmbedderConfig})
    /\ PipelineInitWith({IdleFiles}) /\ pl_config.continue_on_error /\ ~pl_config.incremental
    /\ AuditInit

SpecExtractor == InitExtractor /\ [][ExtractorNext]_vars

InitWorkflow ==
    /\ WorkflowInit
    /\ ru_last = NoRetrieval /\ rt_last = NoRagCall /\ ex = IdleExtractor
    /\ ChunkerInit
    /\ LoaderInitWith({DefaultLoaderConfig})
    /\ EmbedderInitWith({DefaultEmbedderConfig})
    /\ PipelineInitWith({IdleFiles}) /\ pl_config.continue_on_error /\ ~pl_config.incremental
    /\ AuditInit

SpecWorkflow == InitWorkflow /\ [][WorkflowNext]_vars

(* the graph runner runs the next node as long as there is one *)
SpecWorkflowLive == SpecWorkflow /\ WF_vars(WorkflowNext)

(* ------------------------- loader claims ------------------------------ *)

(* a row holds the embedding and the metadata of its own content *)
RowConsistent(row) ==
    /\ row.embedding = Vec(row.content, vl_config.embedding_dimension)
    /\ row.metadata.chunk_size = Len(row.content)

(* C4: load_chunks given any chunk whose embedding is missing or of another
   length than embedding_dimension raises ValidationError and leaves the
   store as it was *)
C4_InvalidChunkWritesNothing ==
    (vl_last.op = "load_chunks" /\ vl_last.has_unfit)
    => (vl_last.raised = "ValidationError" /\ ~vl_last.store_changed)

(* a connected loader rejected a list that also held a valid chunk *)
C4_Witness ==
    /\ vl_last.op = "load_chunks"
    /\ vl_connection # NoHandle
    /\ vl_last.raised = "ValidationError"
    /\ vl_last.has_unfit
    /\ vl_last.has_fit

(* C5: when the write of a batch fails no row of that batch is inserted or
   modified, and every stored row pairs content, embedding and metadata of
   one version *)
C5_BatchAllOrNothing ==
    /\ vl_last.raised = "LoadingError" => ~vl_last.failed_touched
    /\ \A id \in DOMAIN vl_store : RowConsistent(vl_store[id])

(* a batch failed at its second row after its first row, a new version of a
   stored row, had been written in the transaction *)
C5_Witness ==
    /\ vl_last.raised = "LoadingError"
    /\ Len(vl_last.failed_ids) = 2
    /\ vl_last.failed_ids[2] # vl_last.failed_ids[1]
    /\ vl_last.failed_rewrites

(* C6: load_chunks and upsert_chunks reject a call that holds an embedding of
   another length than embedding_dimension before any row is written *)
C6_EveryWriteValidatesFirst ==
    (vl_last.op \in {"load_chunks", "upsert_chunks"} /\ vl_last.has_other_length)
    => (vl_last.raised # None /\ ~vl_last.store_changed)

(* ------------------------- search claims ------------------------------ *)

SearchReturned == vl_search.called /\ vl_search.raised = None

EmbeddingOf(id) == vl_store[id].embedding

(* the cosine of the angle between a and b, squared, with its sign, as the
   fraction num / den *)
CosineSq(a, b) == [num |-> SignedSq(Dot(a, b)), den |-> NormSq(a) * NormSq(b)]

(* stored row x is at most as similar to the query as stored row y *)
NotMoreSimilar(x, y) ==
    LET cx == CosineSq(vl_search.query, EmbeddingOf(x))
        cy == CosineSq(vl_search.query, EmbeddingOf(y))
    IN cx.num * cy.den <= cy.num * cx.den

ResultSorted ==
    \A i, j \in 1..Len(vl_search.result) :
        i < j => NotMoreSimilar(vl_search.result[j], vl_search.result[i])

(* stored rows that match the filters and whose embedding is the query *)
ExactMatches ==
    {id \in DOMAIN vl_store :
        /\ RowMatches(vl_store[id], vl_search.filters)
        /\ EmbeddingOf(id) = vl_search.query}

(* C15 as stated: at most top_k chunks in non-increasing order of similarity,
   and a stored chunk that matches the filters and whose embedding is the
   query is the first one returned (when anything is asked for) *)
C15_BestMatchFirstAsStated ==
    SearchReturned
    => /\ Len(vl_search.result) <= vl_search.top_k
       /\ ResultSorted
       /\ \A id \in ExactMatches :
              vl_search.top_k >= 1 => (vl_search.result # <<>> /\ vl_search.result[1] = id)

(* C15 amended: at most top_k chunks in non-increasing order of similarity,
   and when top_k is at least 1 and a stored chunk that matches the filters
   has the query as its embedding, the first chunk returned is as similar
   to the query as that chunk is *)
C15_BestMatchFirst ==
    SearchReturned
    => /\ Len(vl_search.result) <= vl_search.top_k
       /\ ResultSorted
       /\ \A id \in ExactMatches :
              vl_search.top_k >= 1
              => /\ vl_search.result # <<>>
                 /\ NotMoreSimilar(id, vl_search.result[1])

(* a query that is the embedding of two stored chunks that match the
   filters: both are returned, and one of them is returned second *)
C15_Witness ==
    /\ SearchReturned
    /\ vl_search.top_k = 2
    /\ Len(vl_search.result) = 2
    /\ vl_search.result[2] \in ExactMatches
    /\ vl_search.result[1] \in ExactMatches

(* C16 as stated: the filtered result is a subset of the unfiltered result
   for the same embedding and top_k, and the metadata of every returned
   chunk holds the filter value under every filter key *)
C16_FilteredSubsetAsStated ==
    SearchReturned
    => /\ Range(vl_search.result) \subseteq vl_search.unfiltered
       /\ \A i \in 1..Len(vl_search.result) :
              \A key \in DOMAIN vl_search.filters :
                 /\ key \in DOMAIN vl_store[vl_search.result[i]].metadata
                 /\ vl_store[vl_search.result[i]].metadata[key] = vl_search.filters[key]

MatchingIds == {id \in DOMAIN vl_store : RowMatches(vl_store[id], vl_search.filters)}

(* C16 amended: the filtered query returns the top_k most similar of the
   stored rows whose metadata, as text, equals the text of the filter value
   under every filter key; it is a subset of the unfiltered result whenever
   the unfiltered query is not cut short by top_k *)
C16_FilteredSubset ==
    SearchReturned
    => /\ Range(vl_search.result) \subseteq MatchingIds
       /\ Len(vl_search.result) = Min(vl_search.top_k, Cardinality(MatchingIds))
       /\ \A x \in MatchingIds \ Range(vl_search.result) :
              \A i \in 1..Len(vl_search.result) :
                 NotMoreSimilar(x, vl_search.result[i])
       /\ vl_search.top_k >= Cardinality(DOMAIN vl_store)
              => Range(vl_search.result) \subseteq vl_search.unfiltered

(* a filtered query returned a row that the unfiltered query with the same
   top_k left out for a more similar row that does not match the filters *)
C16_Witness ==
    /\ SearchReturned
    /\ DOMAIN vl_search.filters # {}
    /\ vl_search.result # <<>>
    /\ ~(Range(vl_search.result) \subseteq vl_search.unfiltered)
    /\ \E x \in DOMAIN vl_store \ MatchingIds :
          ~NotMoreSimilar(x, vl_search.result[1])

(* the events of type extraction with status success logged for a source *)
SuccessExtractions(events, source) ==
    {i \in 1..Len(events) :
        /\ events[i].event_type = "extraction"
        /\ events[i].status = "success"
        /\ events[i].source_path = source}

(* C25: with the cache enabled, every vector in the embedder's cache has the
   configured dimension, and so has every vector embed returns *)
C25_CacheHoldsValidVectors ==
    em_config.cache_enabled
    => /\ \A key \in DOMAIN em_cache : Len(em_cache[key]) = em_config.dimension
       /\ (em_call.kind = "embed" /\ em_call.status = "returned")
          => Len(em_call.result[1]) = em_config.dimension

(* -------------------------- audit claims ------------------------------ *)

(* the greatest processed_at among the events of type extraction with
   status success and the given source_path, or no timestamp *)
GreatestSuccessfulExtraction(events, path) ==
    LET hits == SuccessExtractions(events, path)
    IN IF hits = {} THEN NoTimestamp
       ELSE events[CHOOSE i \in hits : \A j \in hits :
                ~TimeLess(ParseTimestamp(events[i].processed_at),
                          ParseTimestamp(events[j].processed_at))].processed_at

(* C18: after the same calls, get_last_processed(p) gives the same answer on
   the relational backends and on the JSONL backend: the greatest
   processed_at among the success extraction events of p, or None *)
C18_SameAnswerOnAllBackends ==
    al_last.op = "get_last_processed"
    => /\ \A b1, b2 \in Backends : al_last.answer[b1] = al_last.answer[b2]
       /\ \A b \in Backends :
             al_last.answer[b] = GreatestSuccessfulExtraction(al[b].events, al_last.path)

LogOps == {"log_extraction", "log_transformation", "log_loading"}

StatusRejected ==
    \/ al_last.op = "log_extraction" /\ al_last.status \notin {"success", "failed", "skipped"}
    \/ /\ al_last.op \in {"log_transformation", "log_loading"}
       /\ al_last.status \notin {"success", "failed"}

(* C19: a log_extraction, log_transformation or log_loading call that
   returns normally appends exactly one event and leaves the events logged
   before as they were; a call with an invalid status raises and appends
   nothing *)
C19_LogAppendsOneEvent ==
    al_last.op \in LogOps
    => \A b \in Backends :
          /\ al_last.raised[b] = None => al_last.grew[b]
          /\ StatusRejected => (al_last.raised[b] = "ValueError" /\ al_last.kept[b])

(* a log call returned normally on two backends that held an event before *)
C19_Witness ==
    /\ al_last.op = "log_extraction"
    /\ al_last.raised["jsonl"] = None /\ Len(al["jsonl"].events) = 2
    /\ al_last.raised["postgresql"] = None /\ Len(al["postgresql"].events) = 2

(* C20: connect() on a connected loader leaves no earlier engine or
   connection open and unreferenced, for the vector loader and for the audit
   loader; disconnect() raises nothing, and changes nothing on a loader that
   is not connected *)
C20_ConnectDisconnectIdempotent ==
    /\ vl_open \subseteq {vl_engine, vl_connection}
    /\ (al_last.op = "connect")
       => \A b \in Backends :
             ~al_last.idle[b] => al[b].open \subseteq {al[b].engine, al[b].connection}
    /\ (al_last.op = "disconnect")
       => \A b \in Backends :
             /\ al_last.raised[b] = None
             /\ al_last.idle[b] => al_last.same[b]

(* ------------------------ pipeline claims ----------------------------- *)

(* the document run() handles next has a success extraction event from an
   earlier run; no file is modified after it was first extracted *)
NextAlreadyProcessed ==
    /\ pl_pc = "loop" /\ pl_next <= Len(pl_documents)
    /\ SuccessExtractions(au_events, pl_documents[pl_next].source) # {}

(* C17: with incremental mode on, run() does not normalize, chunk, embed or
   load a source that has a success extraction event and was not modified
   since: no step of the run handles such a document, writes rows for it or
   audits it again *)
C17_IncrementalSkipsProcessed ==
    [][ (pl_config.incremental /\ NextAlreadyProcessed)
        => /\ pl_outcomes' = pl_outcomes
           /\ vl_store' = vl_store
           /\ au_events' = au_events ]_vars

AllSucceeded(snapshot) ==
    \A k \in 1..Len(snapshot.outcomes) : snapshot.outcomes[k] = "success"

(* what is stored of a chunk besides its id *)
StoredContents(rows) ==
    {<<rows[id].chunk_index, rows[id].content, rows[id].embedding, rows[id].metadata>> :
        id \in DOMAIN rows}

(* C1: a second run over the same files leaves as many chunk rows as the
   first run left, with the same embeddings and metadata *)
C1_RerunIsIdempotent ==
    (Len(pl_snapshots) = 2 /\ AllSucceeded(pl_snapshots[1]) /\ AllSucceeded(pl_snapshots[2]))
    => /\ Cardinality(DOMAIN pl_snapshots[2].rows) = Cardinality(DOMAIN pl_snapshots[1].rows)
       /\ StoredContents(pl_snapshots[2].rows) = StoredContents(pl_snapshots[1].rows)

(* C3: every document of the run whose normalize, chunk, enrich, embed or
   load step failed has an audit event with status failed *)
C3_FailedDocumentIsAudited ==
    \A k \in 1..Len(pl_outcomes) :
        pl_outcomes[k] # "success"
        => \E n \in 1..Len(au_events) :
              /\ au_events[n].status = "failed"
              /\ \/ au_events[n].source_path = pl_documents[k].source
                 \/ au_events[n].document_id = pl_documents[k].id

(* the chunks the pipeline makes of the k-th file *)
ChunksOfFile(k) == Len(ChunkDocument(Normalize(Extract(pl_files, 1)[k]), 1))

(* the stored rows that came from a source *)
RowsOfSource(source) ==
    {id \in DOMAIN vl_store : vl_store[id].metadata.source = source}

(* C26: a success extraction event for a source is logged only after the
   chunks of the document were loaded: for every source, the stored rows of
   the source are at least the chunks of one document for each of its
   success events, and a run logs no more success events than it has
   documents that went through every step *)
C26_SuccessAuditAfterLoad ==
    /\ \A k \in 1..Len(pl_files) :
          Cardinality(SuccessExtractions(au_events, Sources[k])) * ChunksOfFile(k)
              <= Cardinality(RowsOfSource(Sources[k]))
    /\ \A k \in 1..Len(pl_outcomes) :
          pl_outcomes[k] # "success"
          => Cardinality(SuccessExtractions(au_events, pl_documents[k].source)) < pl_run

(* a run in which one document failed after another was audited as success *)
C26_Witness ==
    /\ Len(pl_outcomes) = 2
    /\ pl_outcomes[1] = "success" /\ pl_outcomes[2] = "failed"
    /\ SuccessExtractions(au_events, pl_documents[1].source) # {}
    /\ SuccessExtractions(au_events, pl_documents[2].source) = {}

(* C29: after run() has returned or raised, the vector loader and the audit
   loader hold no engine and no connection, and none is open *)
C29_LoadersDisconnectedAfterRun ==
    pl_pc \in {"returned", "raised"}
    => /\ vl_engine = NoHandle /\ vl_connection = NoHandle
       /\ au_connection = NoHandle
       /\ vl_open = {}

(* C13: with continue_on_error set, a failing document never makes run()
   raise and a run that returns has taken every extracted document through
   the loop; with continue_on_error off, a failing document is the last one
   processed and run() raises *)
C13_ContinueOnError ==
    /\ pl_config.continue_on_error
          => /\ pl_pc = "raised" => pl_outcomes = <<>>
             /\ pl_pc = "returned" => Len(pl_outcomes) = Len(pl_documents)
    /\ ~pl_config.continue_on_error
          => \A k \in 1..Len(pl_outcomes) :
                pl_outcomes[k] # "success" => (k = Len(pl_outcomes) /\ pl_pc = "raised")

(* a run with continue_on_error set returned after its first document
   failed and its second succeeded *)
C13_Witness ==
    /\ pl_config.continue_on_error
    /\ pl_pc = "returned"
    /\ Len(pl_outcomes) = 2
    /\ pl_outcomes[1] # "success"
    /\ pl_outcomes[2] = "success"

RunEnded == pl_pc \in {"returned", "raised"}

SomeDocumentFailed == \E k \in 1..Len(pl_outcomes) : pl_outcomes[k] = "failed"

(* C14 as stated: the exit status is 0 whenever continue_on_error is set, and
   non-zero when it is off and a document failed *)
C14_ExitStatusAsStated ==
    /\ (RunEnded /\ pl_config.continue_on_error) => ExitStatus(pl_pc, pl_stats) = 0
    /\ (RunEnded /\ ~pl_config.continue_on_error /\ SomeDocumentFailed)
          => ExitStatus(pl_pc, pl_stats) # 0

(* C14 amended: with continue_on_error set the exit status is 0 whenever the
   loaders connected and the extraction succeeded, whatever documents
   failed; with continue_on_error off it is non-zero when a document failed *)
C14_ExitStatus ==
    /\ (RunEnded /\ pl_config.continue_on_error /\ pl_documents # <<>>)
          => ExitStatus(pl_pc, pl_stats) = 0
    /\ (RunEnded /\ ~pl_config.continue_on_error /\ SomeDocumentFailed)
          => ExitStatus(pl_pc, pl_stats) # 0

(* a run with continue_on_error set ended with exit status 0 although a
   document had failed *)
C14_Witness ==
    /\ RunEnded /\ pl_config.continue_on_error
    /\ SomeDocumentFailed
    /\ ExitStatus(pl_pc, pl_stats) = 0

(* ------------------------ embedder claims ----------------------------- *)

(* v is what the provider computes for text t *)
IsEmbeddingOf(v, t) == v # <<>> /\ \A k \in 1..Len(v) : v[k] = t

(* C2: embed_batch returns one vector per input text, the i-th being the
   embedding of the i-th text, in sequential and in parallel mode *)
C2_BatchOrderPreserved ==
    (em_call.kind = "embed_batch" /\ em_call.status = "returned")
    => /\ Len(em_call.result) = Len(em_call.texts)
       /\ \A i \in 1..Len(em_call.texts) :
              IsEmbeddingOf(em_call.result[i], em_call.texts[i])

(* a parallel call returned after its batches completed out of submission
   order, one of them re-embedded item by item while another was running *)
C2_Witness ==
    /\ em_call.kind = "embed_batch" /\ em_call.status = "returned"
    /\ em_config.parallel_processing
    /\ em_batch.overlapped
    /\ Len(em_batch.results) >= 2
    /\ em_batch.results[1][1] > em_batch.results[2][1]
    /\ em_call.texts[1] # em_call.texts[Len(em_call.texts)]

AllTransient(history) == \A k \in 1..Len(history) : history[k] \in TransientErrors

(* C8: when the provider answers rate limit, rate limit, vector, embed
   returns that vector, having asked the provider no more often than the
   configured max_retries *)
C8_SucceedsWithinConfiguredCap ==
    (em_call.kind = "embed" /\ em_call.status # "running"
        /\ em_embed.history = <<"rate_limit", "rate_limit", "ok">>)
    => /\ em_call.status = "returned"
       /\ em_call.result = <<Vec(em_call.texts[1], em_config.dimension)>>
       /\ em_embed.provider_calls <= em_config.max_retries

(* C9: when every attempt of embed fails with a transient provider error,
   embed makes at most RetryMaxAttempts attempts, returns no vector, and
   raises EmbeddingError after the last one *)
C9_GivesUpAfterCap ==
    (em_call.kind = "embed" /\ em_embed.attempt > 0
        /\ Len(em_embed.history) = em_embed.attempt
        /\ AllTransient(em_embed.history))
    => /\ em_embed.attempt <= RetryMaxAttempts
       /\ em_call.status # "returned"
       /\ em_embed.attempt = RetryMaxAttempts
             => (em_call.status = "raised" /\ em_call.error = "EmbeddingError")

(* embed raised after a rate limit and two timeouts *)
C9_Witness ==
    /\ em_call.kind = "embed" /\ em_call.status = "raised"
    /\ em_embed.history = <<"rate_limit", "timeout", "timeout">>
    /\ em_embed.attempt = RetryMaxAttempts

(* C11: embed_batch raises only when embed raised for a text of a batch whose
   request failed; while a failed batch is re-embedded, embed runs on its
   texts one by one in order; and a call that returns after a batch request
   failed returns one vector per text, each the embedding of its text *)
C11_BatchFailureFallsBack ==
    /\ (em_call.kind = "embed_batch" /\ em_call.status = "raised")
          => (em_batch.fb_batch # 0 /\ em_embed.outcome = "raised")
    /\ (em_call.status = "running" /\ em_batch.pc \in {"fallback_seq", "fallback_par"})
          => em_embed.text =
                BatchOf(em_call.texts, em_batch.fb_batch, em_config.batch_size)[em_batch.fb_j]
    /\ (em_call.kind = "embed_batch" /\ em_call.status = "returned" /\ em_batch.fb_batch # 0)
          => /\ Len(em_call.result) = Len(em_call.texts)
             /\ \A i \in 1..Len(em_call.texts) :
                    IsEmbeddingOf(em_call.result[i], em_call.texts[i])

(* a call of two different texts in one batch returned after the request
   for the batch had failed *)
C11_Witness ==
    /\ em_call.kind = "embed_batch" /\ em_call.status = "returned"
    /\ em_batch.fb_batch # 0
    /\ em_config.batch_size = 2
    /\ Len(em_call.texts) = 2
    /\ em_call.texts[1] # em_call.texts[2]

(* C12: every vector embed_batch returns has the configured dimension; a
   batch response holding a vector of another length makes the call raise *)
C12_BatchVectorsHaveDimension ==
    (em_call.kind = "embed_batch" /\ em_call.status = "returned")
    => \A i \in 1..Len(em_call.result) : Len(em_call.result[i]) = em_config.dimension

ValidationErrors == {"disabled", "empty_text", "dimension_mismatch"}

(* C10: an attempt of embed that fails with a validation or configuration
   error is not followed by another attempt: no retry is pending after it *)
C10_ValidationNotRetried ==
    (em_call.kind = "embed" /\ em_embed.attempt >= 1
        /\ em_embed.error \in ValidationErrors)
    => ~em_embed.active

(* ------------------------- chunker claims ----------------------------- *)

(* C7: the chunk_index values of the chunks chunk() returns are 0..n-1 in
   order, and no returned chunk has blank content *)
C7_ContiguousIndexes ==
    /\ \A j \in 1..Len(ck_chunks) : ck_chunks[j].chunk_index = j - 1
    /\ \A j \in 1..Len(ck_chunks) : Strip(ck_chunks[j].content) # <<>>

(* ------------------------ retrieval claims ---------------------------- *)

(* C24: for every similarity metric, the list RetrievalUtility.get_best_matches
   returns is sorted by similarity_score, highest first: no result has a
   higher score than a result placed before it *)
C24_SortedByScore ==
    (ru_last.op = "get_best_matches" /\ ru_last.raised = None)
    => \A i, j \in DOMAIN ru_last.results :
          i < j => ~FracLess(ru_last.results[i].similarity_score,
                            ru_last.results[j].similarity_score)

(* the stored rows whose score under the metric reaches the threshold *)
RowsReaching(rows, q, metric, threshold) ==
    {id \in DOMAIN rows :
        ~FracLess(CalculateSimilarity(q, rows[id].embedding, metric), threshold)}

(* C22: with a min_similarity threshold, 0.0 included, get_best_matches asks
   the store for more than top_k rows, returns at most top_k results, each
   of a score that reaches the threshold, and returns exactly top_k results
   when at least top_k stored rows reach the threshold *)
C22_ThresholdNotUnderFilled ==
    ( /\ ru_last.op = "get_best_matches"
      /\ ru_last.raised = None
      /\ ru_last.min_similarity.given )
    => /\ Len(ru_last.fetched) = Min(2 * ru_last.top_k, Cardinality(DOMAIN vl_store))
       /\ Len(ru_last.results) <= ru_last.top_k
       /\ \A i \in DOMAIN ru_last.results :
             ~FracLess(ru_last.results[i].similarity_score,
                       ru_last.min_similarity.value)
       /\ Cardinality(RowsReaching(vl_store, QueryVector, ru_last.similarity_metric,
                                   ru_last.min_similarity.value)) >= ru_last.top_k
          => Len(ru_last.results) = ru_last.top_k

(* C30: in every list get_best_matches, hybrid_search or rerank_results
   returns, the result at position i has rank i *)
C30_RanksFollowOrder ==
    (ru_last.op # None /\ ru_last.raised = None)
    => \A i \in DOMAIN ru_last.results : ru_last.results[i].rank = i

(* the chunks of the store's answer whose cosine similarity to the query
   reaches the threshold, in the store's order *)
ChunksAboveThreshold(rows, chunks, threshold) ==
    SelectSeq(chunks, LAMBDA id :
        ~FracLess(CalculateSimilarity(QueryVector, rows[id].embedding, "cosine"),
                  threshold))

(* C23: retrieve_context returns, in the store's order, one record of
   content, metadata and similarity for every chunk the store's
   get_best_matches returns with a similarity of at least the configured
   threshold, and an empty list only when there is no such chunk or the
   retrieval failed *)
C23_RetrieveContextReturnsMatches ==
    (rt_last.called /\ ~rt_last.connect_failed /\ rt_last.store_raised = None)
    => LET expected == ChunksAboveThreshold(vl_store, rt_last.fetched,
                                            rt_last.similarity_threshold)
       IN /\ Len(rt_last.records) = Len(expected)
          /\ \A i \in DOMAIN rt_last.records :
                /\ rt_last.records[i].content = vl_store[expected[i]].content
                /\ rt_last.records[i].metadata = vl_store[expected[i]].metadata

(* ------------------------ extractor claims ---------------------------- *)

(* C21: for every extractor variant, a file or object that fails to be
   read, downloaded or decoded is skipped and extraction goes on: when
   extract() is over, every file or object that passes the extension and
   size checks and can be read has been yielded *)
C21_BadFileSkipped ==
    ex.pc \in {"returned", "raised"}
    => /\ ex.pc = "returned"
       /\ \A i \in DOMAIN ex.objects :
             (ex.objects[i].fits /\ ex.objects[i].readable) => i \in Range(ex.yielded)

(* ------------------------- workflow claims ---------------------------- *)

(* C27: the reviewer's verdict sends the run back to draft_hld only while
   needs_revision is true and revision_count is below max_revisions; once
   revision_count has reached max_revisions the verdict routes to
   format_doc; the review sends a run back at most max_revisions times *)
C27_ReviewLoopBounded ==
    /\ wf.route = "revise"
       => wf.needs_revision /\ wf.revision_count < wf.max_revisions
    /\ (wf.route # None /\ wf.revision_count >= wf.max_revisions)
       => wf.route = "continue"
    /\ wf.loop_backs <= wf.max_revisions

(* the review sent the run back, and a later review that asked for one more
   revision was overruled by the limit *)
C27_Witness ==
    /\ wf.loop_backs > 0
    /\ wf.route = "continue"
    /\ wf.needs_revision
    /\ wf.revision_count = wf.max_revisions
    /\ wf.node = "format_doc"

(* C28: every run of the workflow eventually reaches END *)
C28_ReachesEnd == <>(wf.node = "END")

====
